---- MODULE Spec2Model ----
(***************************************************************************)
(* Verification model of the scrape engine core (goldypasulu/scrape_engine):*)
(*   - retryWithBackoff            src/src/utils/logger.js  (retry utils)   *)
(*   - autoScroll                  src/src/scraper/auto-scroll.js           *)
(*   - getCluster / queueTask      src/src/core/cluster.js  (hardened)      *)
(*   - processJob / stopWorker     src/src/queue/worker.js  (hardened)      *)
(* Each subsystem has its own specification over the shared variable list;  *)
(* the variables of the other subsystems stay frozen at their idle values.  *)
(***************************************************************************)
EXTENDS Integers, Sequences, FiniteSets, TLC

VARIABLES
    \* ---- retryWithBackoff (one invocation) ----
    rOpts,          \* the options object passed by the caller
    rPc,            \* position of the async function
    attempt,        \* loop variable `attempt`
    lastError,      \* `lastError`
    rBase,          \* delay before jitter, as computed at line 102
    rDelay,         \* `delay` after the jitter of line 106
    rCalls,         \* number of fn(attempt) invocations so far
    rOnRetry,       \* record of the onRetry invocations
    rSleeps,        \* number of sleep(delay) waits started
    rResult,        \* settled outcome of the returned promise
    \* ---- autoScroll (one invocation) ----
    sOpts,          \* the options object: itemSelector given?, minItems, maxStallCount, maxScrolls
    sPc,            \* position of the async function
    scrollCount,    \* `scrollCount`
    stallCount,     \* `stallCount`
    previousItemCount,  \* `previousItemCount`
    previousHeight, \* `previousHeight`
    currentItemCount,   \* `currentItemCount` of the cycle in progress
    hasNewContent,  \* `hasNewContent` of the cycle in progress
    stats,          \* the returned statistics object
    sPage,          \* what the page has shown so far (observations of the run)
    \* ---- core/cluster.js (module state and the queueTask calls in flight) ----
    maxConcurrency, \* config.maxConcurrency
    clusterInstance,    \* `clusterInstance`: 0 is null, else the id of a launched cluster
    stealthVerified,    \* `stealthVerified`
    activePageCount,    \* `activePageCount`
    clusterMemoryInterval,  \* `memoryInterval` of cluster.js is set
    clusters,       \* the clusters launched so far, each with its sessions
    calls,          \* the queueTask calls
    closer,         \* the closeCluster call made from outside the worker
    \* ---- queue/worker.js (module state, the BullMQ worker, the jobs) ----
    maxWorkers,     \* config.maxWorkers, the `concurrency` option of every Worker
    retryAttempts,  \* config.retry.attempts, the `attempts` option of every job
    workerInstance, \* `workerInstance`: 0 is null, else the id of a BullMQ Worker
    workerConnection,   \* `workerConnection`: 0 is null, else the connection's id
    isShuttingDown, \* `isShuttingDown`
    shutdownPromise,    \* `shutdownPromise`: 0 is null, else the shutdown sequence it stands for
    workerMemoryInterval,   \* `memoryInterval` of worker.js is set
    activeJobs,     \* keys of the `activeJobs` map
    wStart,         \* the startWorker calls: the position and the outcome of each
    bull,           \* the BullMQ Worker objects created: paused? closed?
    sequences,      \* the shutdown sequences (the async IIFE of stopWorker) started so far
    stopCalls,      \* the stopWorker calls
    jobs,           \* the jobs of the queue
    \* ---- queue/producer.js ----
    lastEnqueue,    \* the last enqueueScrapeJob / enqueueBulkJobs call and what it did
    \* ---- scraper/product-scraper.js (the loading loop of scrapeProducts) ----
    lPc,            \* position of the scrapeProducts call
    keepGoing,      \* `keepGoing`
    totalScrolls,   \* `totalScrolls`
    loopElapsed,    \* Date.now() - startTimeLoop, in ms
    lCycle,         \* the last cycle: what the page showed and why the loop was left
    \* ---- queue/worker.js (the handlers of setupShutdownHandlers) ----
    crash,          \* the uncaughtException / unhandledRejection handler and process.exit
    \* ---- the paginated scrapeProducts ----
    pgPc,           \* position of the scrapeProducts call
    maxPages,       \* `maxPages` of the job data
    currentPage,    \* `currentPage`
    pgRun,          \* what the iterations did: pages processed, tries at the current page
    pgResult        \* the result returned

retryVars == <<rOpts, rPc, attempt, lastError, rBase, rDelay, rCalls, rOnRetry, rSleeps, rResult>>

scrollVars == <<sOpts, sPc, scrollCount, stallCount, previousItemCount, previousHeight,
                currentItemCount, hasNewContent, stats, sPage>>

clusterVars == <<maxConcurrency, clusterInstance, stealthVerified, activePageCount,
                 clusterMemoryInterval, clusters, calls>>

workerVars == <<maxWorkers, retryAttempts, workerInstance, workerConnection, isShuttingDown, shutdownPromise,
                workerMemoryInterval, activeJobs, wStart, bull, sequences, stopCalls, jobs>>

closeVars == <<closer>>

producerVars == <<lastEnqueue>>

loadVars == <<lPc, keepGoing, totalScrolls, loopElapsed, lCycle>>

crashVars == <<crash>>

pagedVars == <<pgPc, maxPages, currentPage, pgRun, pgResult>>

vars == <<retryVars, scrollVars, clusterVars, closeVars, workerVars, producerVars, loadVars,
         crashVars, pagedVars>>

NoError == [src |-> "none", n |-> 0, retryable |-> FALSE]
Pending == [kind |-> "pending", value |-> 0, error |-> NoError]
Fulfilled(v) == [kind |-> "value", value |-> v, error |-> NoError]
Rejected(e) == [kind |-> "error", value |-> 0, error |-> e]

Min(a, b) == IF a <= b THEN a ELSE b
Max(a, b) == IF a >= b THEN a ELSE b

RECURSIVE Pow(_, _)
Pow(b, e) == IF e <= 0 THEN 1 ELSE b * Pow(b, e - 1)

(***************************************************************************)
(* autoScroll                                                              *)
(***************************************************************************)

\* Bounds of the scroll model: the largest maxScrolls and maxStallCount passed
\* (both at least 1), the largest element count and scroll height the page
\* reports.
MaxScrollsBound == 5
MaxStallBound == 3
MaxItems == 3
MaxHeight == 2

ItemCounts == 0..MaxItems
Heights == 0..MaxHeight

Null == [isNull |-> TRUE, n |-> 0]
Num(n) == [isNull |-> FALSE, n |-> n]

ScrollOptions ==
    { [itemSelector |-> sel, minItems |-> mi, maxStallCount |-> ms, maxScrolls |-> mx] :
        sel \in BOOLEAN, mi \in {0, 2}, ms \in 1..MaxStallBound,
        mx \in {1, 2, MaxScrollsBound} }

NoStats == [scrollCount |-> 0, initialItemCount |-> 0, finalItemCount |-> Null,
            itemsLoaded |-> Null, stallsEncountered |-> 0, returned |-> FALSE]

\* sPage: the counts the page has reported (last one, and whether any report
\* exceeded the one before it), the count measured before the first cycle, the
\* number of loop bodies entered and, per finished cycle, whether it saw growth;
\* atBottom is what isAtPageBottom answered in the last cycle, late whether the
\* retry at the bottom found items in it, exit how the loop was left.
FreshPage == [last |-> 0, everIncreased |-> FALSE, baseline |-> 0, cycles |-> 0,
              history |-> <<>>, atBottom |-> FALSE, late |-> FALSE, exit |-> "none"]

Observe(pg, c) == [pg EXCEPT !.last = c,
                             !.everIncreased = pg.everIncreased \/ c > pg.last]

ScrollIdle ==
    /\ sPc = "start"
    /\ scrollCount = 0
    /\ stallCount = 0
    /\ previousItemCount = 0
    /\ previousHeight = 0
    /\ currentItemCount = 0
    /\ hasNewContent = FALSE
    /\ stats = NoStats
    /\ sPage = FreshPage

ScrollInit == sOpts \in ScrollOptions /\ ScrollIdle

ScrollFrozen ==
    /\ sOpts = [itemSelector |-> FALSE, minItems |-> 0, maxStallCount |-> 0, maxScrolls |-> 0]
    /\ ScrollIdle

\* Lines 143-156: the initial state of the page is read.
ScrollStart ==
    /\ sPc = "start"
    /\ \E c \in ItemCounts, h \in Heights :
        /\ previousItemCount' = IF sOpts.itemSelector THEN c ELSE 0
        /\ previousHeight' = h
        /\ sPage' = IF sOpts.itemSelector
                      THEN [FreshPage EXCEPT !.last = c, !.baseline = c]
                      ELSE FreshPage
    /\ sPc' = "loop"
    /\ UNCHANGED <<sOpts, scrollCount, stallCount, currentItemCount, hasNewContent, stats>>
    /\ UNCHANGED <<retryVars, clusterVars, workerVars, closeVars, producerVars, loadVars, crashVars, pagedVars>>

\* Mutant of the else branch of line 281: the stall counter is kept.
StallAfterProgressKept(stall) == stall
\* Lines 281-284: stallCount = 0 on a cycle with new content.
StallAfterProgress(stall) == 0

\* Mutant of the exit test: the stall ceiling is never reached.
StallCeilingReachedNever(stall) == FALSE
\* Line 270: stallCount >= maxStallCount
StallCeilingReached(stall) == stall >= sOpts.maxStallCount

\* Lines 269-297, the end of a cycle: the stall ceiling (tested only inside the
\* no-new-content branch), the minimum-items target, else the counters advance.
CycleEnd(pg, stall, cur, hasNew, inStallBranch) ==
    /\ stallCount' = stall
    /\ currentItemCount' = cur
    /\ hasNewContent' = hasNew
    /\ IF inStallBranch /\ StallCeilingReached(stall)
         THEN /\ sPc' = "final"
              /\ sPage' = [pg EXCEPT !.history = Append(pg.history, hasNew), !.exit = "stall"]
              /\ UNCHANGED <<previousItemCount, scrollCount>>
         ELSE IF sOpts.minItems > 0 /\ cur >= sOpts.minItems
         THEN /\ sPc' = "final"
              /\ sPage' = [pg EXCEPT !.history = Append(pg.history, hasNew), !.exit = "min"]
              /\ UNCHANGED <<previousItemCount, scrollCount>>
         ELSE /\ sPc' = "loop"
              /\ sPage' = [pg EXCEPT !.history = Append(pg.history, hasNew)]
              /\ previousItemCount' = cur
              /\ scrollCount' = scrollCount + 1

\* Mutant of line 163: the loop test lets one more cycle in.
LoopTestOffByOne == scrollCount <= sOpts.maxScrolls
\* Line 163: while (scrollCount < maxScrolls)
LoopTest == scrollCount < sOpts.maxScrolls

\* Mutant of line 242: the retry at the bottom comes one stall late.
EscalationDueLate(atBottom, stall) == atBottom /\ stall >= 3
\* Line 242: if (atBottom && stallCount >= 2), stallCount already incremented
EscalationDue(atBottom, stall) == atBottom /\ stall >= 2

\* Lines 163-267: one loop body up to the escalated retry: scroll, wait, observe
\* the item count (or, without a selector, the scroll height), read atBottom.
ScrollCycle ==
    /\ sPc = "loop"
    /\ LoopTest
    /\ \E c \in ItemCounts, h \in Heights, atBottom \in BOOLEAN :
        LET cur == IF sOpts.itemSelector THEN c ELSE previousItemCount
            hasNew == IF sOpts.itemSelector THEN c > previousItemCount
                                            ELSE h > previousHeight
            pg == [(IF sOpts.itemSelector THEN Observe(sPage, c) ELSE sPage)
                      EXCEPT !.cycles = sPage.cycles + 1, !.atBottom = atBottom, !.late = FALSE]
        IN  /\ sOpts.itemSelector => h = previousHeight
            /\ ~sOpts.itemSelector => c = 0
            /\ previousHeight' = IF sOpts.itemSelector THEN previousHeight ELSE h
            /\ IF hasNew
                 THEN CycleEnd(pg, StallAfterProgress(stallCount), cur, TRUE, FALSE)
                 ELSE IF EscalationDue(atBottom, stallCount + 1)
                 THEN /\ sPc' = "escalate"
                      /\ stallCount' = stallCount + 1
                      /\ currentItemCount' = cur
                      /\ hasNewContent' = FALSE
                      /\ sPage' = pg
                      /\ UNCHANGED <<previousItemCount, scrollCount>>
                 ELSE CycleEnd(pg, stallCount + 1, cur, FALSE, TRUE)
    /\ UNCHANGED <<sOpts, stats>>
    /\ UNCHANGED <<retryVars, clusterVars, workerVars, closeVars, producerVars, loadVars, crashVars, pagedVars>>

\* Lines 242-267: at the bottom with stallCount >= 2, scroll to the absolute
\* bottom and wait 2 * itemWaitTimeout for items; then the end of the cycle.
ScrollEscalate ==
    /\ sPc = "escalate"
    /\ \E c \in ItemCounts :
        /\ ~sOpts.itemSelector => c = 0
        /\ IF sOpts.itemSelector /\ c > previousItemCount
             THEN CycleEnd([Observe(sPage, c) EXCEPT !.late = TRUE], 0, c, TRUE, TRUE)
             ELSE CycleEnd(IF sOpts.itemSelector THEN Observe(sPage, c) ELSE sPage,
                           stallCount, currentItemCount, FALSE, TRUE)
    /\ UNCHANGED <<sOpts, previousHeight, stats>>
    /\ UNCHANGED <<retryVars, clusterVars, workerVars, closeVars, producerVars, loadVars, crashVars, pagedVars>>

\* Line 163: the loop test fails, the cycle ceiling is reached.
ScrollLoopExit ==
    /\ sPc = "loop"
    /\ ~LoopTest
    /\ sPc' = "final"
    /\ sPage' = [sPage EXCEPT !.exit = "limit"]
    /\ UNCHANGED <<sOpts, scrollCount, stallCount, previousItemCount, previousHeight,
                   currentItemCount, hasNewContent, stats>>
    /\ UNCHANGED <<retryVars, clusterVars, workerVars, closeVars, producerVars, loadVars, crashVars, pagedVars>>

\* Lines 311-330: the final count is read and the statistics are returned.
ScrollFinal ==
    /\ sPc = "final"
    /\ \E c \in ItemCounts :
        LET finalItemCount == IF sOpts.itemSelector THEN Num(c) ELSE Null
            truthy == ~finalItemCount.isNull /\ finalItemCount.n # 0
        IN  /\ ~sOpts.itemSelector => c = 0
            /\ sPage' = IF sOpts.itemSelector THEN Observe(sPage, c) ELSE sPage
            /\ stats' = [scrollCount |-> scrollCount,
                         initialItemCount |-> previousItemCount,
                         finalItemCount |-> finalItemCount,
                         itemsLoaded |-> IF truthy
                                           THEN Num(finalItemCount.n -
                                                (IF sOpts.itemSelector THEN previousItemCount ELSE 0))
                                           ELSE Null,
                         stallsEncountered |-> stallCount,
                         returned |-> TRUE]
    /\ sPc' = "done"
    /\ UNCHANGED <<sOpts, scrollCount, stallCount, previousItemCount, previousHeight,
                   currentItemCount, hasNewContent>>
    /\ UNCHANGED <<retryVars, clusterVars, workerVars, closeVars, producerVars, loadVars, crashVars, pagedVars>>

ScrollNext ==
    \/ ScrollStart
    \/ ScrollCycle
    \/ ScrollEscalate
    \/ ScrollLoopExit
    \/ ScrollFinal

(***************************************************************************)
(* core/cluster.js: getCluster, queueTask                                  *)
(***************************************************************************)

\* Bound of the cluster model: the number of queueTask calls issued.
NCalls == 2

\* config.maxConcurrency: getEnvInt('MAX_CONCURRENCY', 2); the values 1 and 2
\* are tried.
DefaultMaxConcurrency == 2

CallIds == 1..NCalls

FreshSession == [busy |-> FALSE, cookies |-> FALSE, storage |-> FALSE]

\* Cluster.launch({maxConcurrency: config.maxConcurrency, ...}): a cluster
\* with maxConcurrency sessions, none in use.
\* open: the cluster takes jobs; alive: its browser processes exist.
NewCluster == [open |-> TRUE, alive |-> TRUE,
               sessions |-> [k \in 1..maxConcurrency |-> FreshSession]]

NoCloser == [pc |-> "idle", cluster |-> 0, late |-> {}]

\* A queueTask call. data: the `data` argument, an object or JavaScript's
\* undefined; task: what taskFn did; threw: where the error the callback
\* rejects with comes from; outcome: how the call settled.
IdleCall == [pc |-> "idle", data |-> "object", cluster |-> 0, slot |-> 0, task |-> "none",
             outcome |-> "none", threw |-> "none", cleaned |-> FALSE, sawStale |-> FALSE]

\* JSON.stringify(taskData): a string for an object, undefined for undefined.
JsonStringify(data) == IF data = "undefined" THEN "undefined" ELSE "string"

ClusterIdle ==
    /\ clusterInstance = 0
    /\ stealthVerified = FALSE
    /\ activePageCount = 0
    /\ clusterMemoryInterval = FALSE
    /\ clusters = <<>>
    /\ calls = [i \in CallIds |-> IdleCall]
    /\ closer = NoCloser

ClusterInit == maxConcurrency \in 1..DefaultMaxConcurrency /\ ClusterIdle

ClusterFrozen == maxConcurrency = 1 /\ ClusterIdle

FreeSlots(c) == {k \in DOMAIN clusters[c].sessions : ~clusters[c].sessions[k].busy}

\* Line 197: if (clusterInstance) return clusterInstance;
GetClusterHasInstance == clusterInstance # 0

\* queueTask is called: getCluster() runs to its first await. With an
\* instance it returns it; without one Cluster.launch(...) is started.
\* (The calls are numbered in the order they are issued.)
QueueTask(i) ==
    /\ calls[i].pc = "idle"
    /\ \A j \in 1..(i - 1) : calls[j].pc # "idle"
    /\ calls' = [calls EXCEPT ![i] =
                    IF GetClusterHasInstance
                      THEN [@ EXCEPT !.pc = "gotCluster", !.cluster = clusterInstance]
                      ELSE [@ EXCEPT !.pc = "launching"]]
    /\ UNCHANGED <<maxConcurrency, clusterInstance, stealthVerified, activePageCount,
                   clusterMemoryInterval, clusters>>
    /\ UNCHANGED <<retryVars, scrollVars, workerVars, closeVars, producerVars, loadVars, crashVars, pagedVars>>

\* Lines 211-284: await Cluster.launch(...) fulfils; clusterInstance is
\* assigned, the memory interval is set, getCluster returns clusterInstance.
LaunchCompletes(i) ==
    /\ calls[i].pc = "launching"
    /\ clusters' = Append(clusters, NewCluster)
    /\ clusterInstance' = Len(clusters) + 1
    /\ clusterMemoryInterval' = TRUE
    /\ calls' = [calls EXCEPT ![i] = [@ EXCEPT !.pc = "gotCluster", !.cluster = Len(clusters) + 1]]
    /\ UNCHANGED <<maxConcurrency, stealthVerified, activePageCount>>
    /\ UNCHANGED <<retryVars, scrollVars, workerVars, closeVars, producerVars, loadVars, crashVars, pagedVars>>

\* await Cluster.launch(...) rejects: getCluster and queueTask reject.
LaunchFails(i) ==
    /\ calls[i].pc = "launching"
    /\ calls' = [calls EXCEPT ![i] = [@ EXCEPT !.pc = "done", !.outcome = "error", !.threw = "launch"]]
    /\ UNCHANGED <<maxConcurrency, clusterInstance, stealthVerified, activePageCount,
                   clusterMemoryInterval, clusters>>
    /\ UNCHANGED <<retryVars, scrollVars, workerVars, closeVars, producerVars, loadVars, crashVars, pagedVars>>

\* queueTask(taskFn) is called with its data argument left out: as QueueTask,
\* with taskData undefined inside the callback.
QueueTaskNoData(i) ==
    /\ calls[i].pc = "idle"
    /\ \A j \in 1..(i - 1) : calls[j].pc # "idle"
    /\ calls' = [calls EXCEPT ![i] =
                    IF GetClusterHasInstance
                      THEN [@ EXCEPT !.pc = "gotCluster", !.cluster = clusterInstance,
                                     !.data = "undefined"]
                      ELSE [@ EXCEPT !.pc = "launching", !.data = "undefined"]]
    /\ UNCHANGED <<maxConcurrency, clusterInstance, stealthVerified, activePageCount,
                   clusterMemoryInterval, clusters>>
    /\ UNCHANGED <<retryVars, scrollVars, workerVars, closeVars, producerVars, loadVars, crashVars, pagedVars>>

\* Line 298: cluster.execute(data, callback) queues the job on the cluster that
\* getCluster returned to this call.
Execute(i) ==
    /\ calls[i].pc = "gotCluster"
    /\ calls' = [calls EXCEPT ![i] = [@ EXCEPT !.pc = "queued"]]
    /\ UNCHANGED <<maxConcurrency, clusterInstance, stealthVerified, activePageCount,
                   clusterMemoryInterval, clusters>>
    /\ UNCHANGED <<retryVars, scrollVars, workerVars, closeVars, producerVars, loadVars, crashVars, pagedVars>>

\* The cluster hands the job a free session (at most maxConcurrency per
\* cluster); the callback starts: activePageCount++ (line 299).
CallbackStarts(i) ==
    /\ calls[i].pc = "queued"
    /\ LET c == calls[i].cluster IN
        /\ clusters[c].open
        /\ \E k \in FreeSlots(c) :
            /\ clusters' = [clusters EXCEPT ![c].sessions[k].busy = TRUE]
            /\ calls' = [calls EXCEPT ![i] =
                  [@ EXCEPT !.pc = "setup", !.slot = k,
                            !.sawStale = clusters[c].sessions[k].cookies
                                         \/ clusters[c].sessions[k].storage]]
    /\ activePageCount' = activePageCount + 1
    /\ UNCHANGED <<maxConcurrency, clusterInstance, stealthVerified, clusterMemoryInterval>>
    /\ UNCHANGED <<retryVars, scrollVars, workerVars, closeVars, producerVars, loadVars, crashVars, pagedVars>>

\* Lines 302-335: page.authenticate, configurePage, verifyStealthConfiguration
\* all fulfil; taskFn(page, taskData) is called.
SetupCompletes(i) ==
    /\ calls[i].pc = "setup"
    /\ stealthVerified' = TRUE
    /\ calls' = [calls EXCEPT ![i] = [@ EXCEPT !.pc = "task"]]
    /\ UNCHANGED <<maxConcurrency, clusterInstance, activePageCount, clusterMemoryInterval, clusters>>
    /\ UNCHANGED <<retryVars, scrollVars, workerVars, closeVars, producerVars, loadVars, crashVars, pagedVars>>

\* Line 366, the start of the finally block: activePageCount--, then the
\* cookie cleanup is awaited.
EnterFinally(c, threw) ==
    /\ activePageCount' = activePageCount - 1
    /\ calls' = [calls EXCEPT ![c] =
          [@ EXCEPT !.pc = "cleanCookies", !.threw = threw,
                    !.task = IF calls[c].pc # "task" THEN "none"
                             ELSE IF threw = "none" THEN "returned" ELSE "threw"]]

\* Lines 343-347: the arguments of logger.error are evaluated;
\* JSON.stringify(taskData).substring(0, 100) throws a TypeError when
\* JSON.stringify returned undefined, and that error leaves the catch block in
\* place of the one caught. Else `throw error` (line 363) rethrows the caught
\* one, whatever the screenshot attempt of lines 350-361 did.
CatchRethrows(i, caught) ==
    IF JsonStringify(calls[i].data) = "undefined" THEN "TypeError" ELSE caught

\* configurePage (or page.authenticate) rejects: catch (no screenshot, the
\* page is not configured), rethrow, finally.
SetupThrows(i) ==
    /\ calls[i].pc = "setup"
    /\ EnterFinally(i, CatchRethrows(i, "setup"))
    /\ UNCHANGED <<maxConcurrency, clusterInstance, stealthVerified, clusterMemoryInterval, clusters>>
    /\ UNCHANGED <<retryVars, scrollVars, workerVars, closeVars, producerVars, loadVars, crashVars, pagedVars>>

\* The task has used the page: it leaves cookies and storage in its session.
TaskUsesSession(i) ==
    [clusters EXCEPT ![calls[i].cluster].sessions[calls[i].slot] =
        [@ EXCEPT !.cookies = TRUE, !.storage = TRUE]]

\* Lines 338-340: await taskFn(...) fulfils; return result; finally.
TaskReturns(i) ==
    /\ calls[i].pc = "task"
    /\ clusters' = TaskUsesSession(i)
    /\ EnterFinally(i, "none")
    /\ UNCHANGED <<maxConcurrency, clusterInstance, stealthVerified, clusterMemoryInterval>>
    /\ UNCHANGED <<retryVars, scrollVars, workerVars, closeVars, producerVars, loadVars, crashVars, pagedVars>>

\* Lines 342-363: await taskFn(...) rejects; catch (the screenshot attempt,
\* its errors ignored), throw error; finally.
TaskThrows(i) ==
    /\ calls[i].pc = "task"
    /\ clusters' = TaskUsesSession(i)
    /\ EnterFinally(i, CatchRethrows(i, "task"))
    /\ UNCHANGED <<maxConcurrency, clusterInstance, stealthVerified, clusterMemoryInterval>>
    /\ UNCHANGED <<retryVars, scrollVars, workerVars, closeVars, producerVars, loadVars, crashVars, pagedVars>>

\* Lines 369-376: createCDPSession, Network.clearBrowserCookies, detach; a
\* rejection of any of them is caught and logged.
CleanCookies(i) ==
    /\ calls[i].pc = "cleanCookies"
    /\ \E ok \in BOOLEAN :
        /\ clusters' = IF ok THEN [clusters EXCEPT
                                     ![calls[i].cluster].sessions[calls[i].slot].cookies = FALSE]
                             ELSE clusters
        /\ calls' = [calls EXCEPT ![i] = [@ EXCEPT !.pc = "cleanStorage", !.cleaned = ok]]
    /\ UNCHANGED <<maxConcurrency, clusterInstance, stealthVerified, activePageCount,
                   clusterMemoryInterval>>
    /\ UNCHANGED <<retryVars, scrollVars, workerVars, closeVars, producerVars, loadVars, crashVars, pagedVars>>

\* Lines 378-395: page.evaluate(localStorage.clear(); sessionStorage.clear());
\* a rejection is caught and logged. The callback settles: the cluster takes
\* the session back and execute() resolves or rejects with the callback's
\* outcome.
CleanStorage(i) ==
    /\ calls[i].pc = "cleanStorage"
    /\ \E ok \in BOOLEAN :
        /\ clusters' = [clusters EXCEPT ![calls[i].cluster].sessions[calls[i].slot] =
                            [@ EXCEPT !.busy = FALSE,
                                      !.storage = IF ok THEN FALSE ELSE @]]
        /\ calls' = [calls EXCEPT ![i] =
              [@ EXCEPT !.pc = "done", !.cleaned = calls[i].cleaned /\ ok,
                        !.outcome = IF calls[i].threw = "none" THEN "value" ELSE "error"]]
    /\ UNCHANGED <<maxConcurrency, clusterInstance, stealthVerified, activePageCount,
                   clusterMemoryInterval>>
    /\ UNCHANGED <<retryVars, scrollVars, workerVars, closeVars, producerVars, loadVars, crashVars, pagedVars>>

\* getClusterStatus().activePages (line 488).
ActivePages == activePageCount
\* The queueTask callbacks between activePageCount++ (line 299) and
\* activePageCount-- (line 366).
ExecutingBodies == {i \in CallIds : calls[i].pc \in {"setup", "task"}}

\* Lines 464-466, 474-476 and 515-517: what both exits of closeCluster and
\* forceKillBrowsers leave in the module state.
ClusterGone ==
    /\ clusterInstance' = 0
    /\ stealthVerified' = FALSE
    /\ activePageCount' = 0

\* closeCluster() clears the cluster's memory interval before it waits.
CloseClusterCalled ==
    clusterMemoryInterval' = IF clusterInstance # 0 THEN FALSE ELSE clusterMemoryInterval

\* Line 463 fulfilled: clusterInstance.close() has closed the browsers of the
\* cluster the variable refers to.
ClosedClusters == [clusters EXCEPT ![clusterInstance] = [@ EXCEPT !.open = FALSE, !.alive = FALSE]]

\* Lines 500-513 of forceKillBrowsers: with an instance, the process behind
\* clusterInstance.browser gets SIGKILL if the cluster exposes one (a failure
\* is caught); without an instance nothing is killed.
ForceKilledClusters ==
    IF clusterInstance # 0
      THEN {clusters, [clusters EXCEPT ![clusterInstance] = [@ EXCEPT !.open = FALSE, !.alive = FALSE]]}
      ELSE {clusters}

\* Lines 424-446: closeCluster() is called from outside the worker. Without
\* an instance it returns; else it clears the interval and waits for the
\* active pages. (late: the queueTask calls not yet issued at this moment.)
CloseClusterCall ==
    /\ closer.pc = "idle"
    /\ closer' = IF clusterInstance = 0
                   THEN [closer EXCEPT !.pc = "done"]
                   ELSE [pc |-> "waiting", cluster |-> clusterInstance,
                         late |-> {i \in CallIds : calls[i].pc = "idle"}]
    /\ CloseClusterCalled
    /\ UNCHANGED <<maxConcurrency, clusterInstance, stealthVerified, activePageCount, clusters, calls>>
    /\ UNCHANGED <<retryVars, scrollVars, workerVars, producerVars, loadVars, crashVars, pagedVars>>

\* Lines 443-468: the pages have finished or the 30 s have passed, idle() has
\* settled, clusterInstance.close() fulfils; the module state is reset.
CloseClusterFulfils ==
    /\ closer.pc = "waiting"
    /\ \E timedOut \in BOOLEAN : activePageCount = 0 \/ timedOut
    /\ clusterInstance # 0
    /\ clusters' = ClosedClusters
    /\ ClusterGone
    /\ closer' = [closer EXCEPT !.pc = "done"]
    /\ UNCHANGED <<maxConcurrency, clusterMemoryInterval, calls>>
    /\ UNCHANGED <<retryVars, scrollVars, workerVars, producerVars, loadVars, crashVars, pagedVars>>

\* Lines 463, 470-479: clusterInstance.close() rejects; the catch block
\* resets the module state and rethrows.
CloseClusterRejects ==
    /\ closer.pc = "waiting"
    /\ ClusterGone
    /\ closer' = [closer EXCEPT !.pc = "done"]
    /\ UNCHANGED <<maxConcurrency, clusterMemoryInterval, clusters, calls>>
    /\ UNCHANGED <<retryVars, scrollVars, workerVars, producerVars, loadVars, crashVars, pagedVars>>

ClusterNext ==
    \E i \in CallIds :
        \/ QueueTask(i)
        \/ LaunchCompletes(i)
        \/ LaunchFails(i)
        \/ Execute(i)
        \/ CallbackStarts(i)
        \/ SetupCompletes(i)
        \/ SetupThrows(i)
        \/ TaskReturns(i)
        \/ TaskThrows(i)
        \/ CleanCookies(i)
        \/ CleanStorage(i)

\* queueTask calls with and without a data argument.
TaskNext ==
    \/ ClusterNext
    \/ \E i \in CallIds : QueueTaskNoData(i)

\* getCluster / queueTask calls together with a closeCluster call.
CloseNext ==
    \/ ClusterNext
    \/ CloseClusterCall
    \/ CloseClusterFulfils
    \/ CloseClusterRejects

(***************************************************************************)
(* queue/worker.js: processJob, startWorker, stopWorker                    *)
(***************************************************************************)

\* Bounds of the worker model: the jobs in the queue, the stopWorker calls
\* issued, the callers of startWorker, the workers they create, and the
\* largest retry.attempts tried.
NJobs == 2
NStopCalls == 2
NStartCalls == 2
MaxWorkersCreated == 2
MaxRetryAttempts == 4

\* config.maxWorkers: getEnvInt('MAX_WORKERS', 3)
DefaultMaxWorkers == 3

JobIds == 1..NJobs
StopIds == 1..NStopCalls
StartIds == 1..NStartCalls

\* ErrorTypes
TIMEOUT == "timeout"
NETWORK == "network"
BANNED == "banned"
CAPTCHA == "captcha"
RATE_LIMITED == "rate_limited"
SELECTOR == "selector"
UNKNOWN == "unknown"

\* An error message is modelled by the set of the substrings classifyError
\* looks for that occur in its lower-cased text.
ErrorMessages ==
    { {"403"},                  \* "Request failed with status 403"
      {"timeout", "blocked"},   \* "Navigation timeout: request blocked"
      {"429"},                  \* "HTTP 429"
      {"banned", "captcha"},    \* "IP banned, captcha challenge shown"
      {} }                      \* anything else

Includes(msg, words) == msg \cap words # {}

\* classifyError: the first matching test of lines 48-65 decides.
ClassifyError(msg) ==
    IF Includes(msg, {"timeout", "navigation timeout"}) THEN TIMEOUT
    ELSE IF Includes(msg, {"net::", "econnrefused", "econnreset"}) THEN NETWORK
    ELSE IF Includes(msg, {"403", "blocked", "banned"}) THEN BANNED
    ELSE IF Includes(msg, {"captcha", "challenge"}) THEN CAPTCHA
    ELSE IF Includes(msg, {"429", "too many requests", "rate limit"}) THEN RATE_LIMITED
    ELSE IF Includes(msg, {"selector", "element not found"}) THEN SELECTOR
    ELSE UNKNOWN

\* JavaScript's undefined, as the value of a missing property.
Undefined == "<undefined>"

\* The keyword and url values tried for a job's data.
Keywords == {Undefined, "", "sepatu lari"}
Urls == {Undefined, "", "https://www.tokopedia.com/p/sepatu"}
JobSpecs == [keyword : Keywords, url : Urls]

\* A value that `!v` does not negate to true.
Truthy(v) == v \notin {Undefined, ""}

\* encodeURIComponent(keyword) inside the template literal of line 31.
EncodeURIComponent(k) ==
    IF k = Undefined THEN "undefined"
    ELSE IF k = "sepatu lari" THEN "sepatu%20lari"
    ELSE k

\* product-scraper.js line 31: url || `https://www.tokopedia.com/search?st=product&q=${...}`
TargetUrl(data) ==
    IF Truthy(data.url)
      THEN <<data.url>>
      ELSE <<"https://www.tokopedia.com/search?st=product&q=", EncodeURIComponent(data.keyword)>>

NoTarget == <<>>

\* job.data.lastError before any failure was recorded.
NoLastError == [type |-> "none", attempt |-> 0]

\* A job as enqueued. delay is the backoff BullMQ last gave it; bans counts its attempts that failed with a banned
\* error, firstTwoBanned records whether its first two attempts both did, and
\* refusals counts the processJob invocations rejected at line 101.
\* data is what the producer persisted, target the URL scrapeProducts went to,
\* worker the BullMQ Worker that has the job in hand (0: none).
PersistedJob(data) ==
    [state |-> "waiting", worker |-> 0, attemptsMade |-> 0, bans |-> 0, firstTwoBanned |-> FALSE,
     refusals |-> 0, data |-> data, target |-> NoTarget,
     lastError |-> NoLastError, delay |-> 0, failedBy |-> "none"]

NewJob == PersistedJob([keyword |-> "sepatu lari", url |-> Undefined])

\* A job id the queue has not handed out yet.
AbsentJob == [NewJob EXCEPT !.state = "absent"]

\* The jobs in the queue when the worker's life cycle is explored: all but
\* the last job id.
QueuedAtStart == 1..(NJobs - 1)

NoEnqueue == [fn |-> "none", valid |-> TRUE, outcome |-> "none", added |-> {}, changed |-> FALSE]

NoStart == [pc |-> "idle", outcome |-> "none"]

\* No fault handler has run. pc: the handler's position; call: its stopWorker
\* call; open: what was still open when process.exit was called.
NoCrash == [pc |-> "none", call |-> 0, open |-> {}]

WorkerModuleIdle ==
    /\ workerInstance = 0
    /\ workerConnection = 0
    /\ isShuttingDown = FALSE
    /\ shutdownPromise = 0
    /\ workerMemoryInterval = FALSE
    /\ activeJobs = {}
    /\ wStart = [s \in StartIds |-> NoStart]
    /\ bull = <<>>
    /\ sequences = <<>>
    /\ stopCalls = [c \in StopIds |-> [pc |-> "idle", seq |-> 0, joined |-> FALSE]]
    /\ lastEnqueue = NoEnqueue
    /\ crash = NoCrash

WorkerIdle ==
    /\ WorkerModuleIdle
    /\ jobs = [j \in JobIds |-> IF j \in QueuedAtStart THEN NewJob ELSE AbsentJob]

\* The worker's life cycle is explored with jobs that get a single attempt,
\* the jobs' attempts with every retry.attempts up to the bound.
WorkerInit == maxWorkers = DefaultMaxWorkers /\ retryAttempts = 1 /\ WorkerIdle

JobInit == maxWorkers = DefaultMaxWorkers /\ retryAttempts \in 1..MaxRetryAttempts /\ WorkerIdle

WorkerFrozen == maxWorkers = DefaultMaxWorkers /\ retryAttempts = 1 /\ WorkerIdle

\* The producer starts with an empty queue.
ProducerInit ==
    /\ maxWorkers = DefaultMaxWorkers
    /\ retryAttempts = 1
    /\ WorkerModuleIdle
    /\ jobs = [j \in JobIds |-> AbsentJob]

\* Overlapping startWorker calls are explored with every job in the queue and
\* every concurrency up to the default.
StartInit ==
    /\ maxWorkers \in 1..DefaultMaxWorkers
    /\ retryAttempts = 1
    /\ WorkerModuleIdle
    /\ jobs = [j \in JobIds |-> NewJob]

WorkerClusterInit == maxConcurrency = DefaultMaxConcurrency /\ ClusterIdle

\* The BullMQ worker that fetches jobs, if any: created, not paused, not closed.
Fetching(w) == w \in DOMAIN bull /\ ~bull[w].paused /\ ~bull[w].closed
\* Jobs the BullMQ workers have in hand, and those of worker w.
InHand == {j \in JobIds : jobs[j].state \in {"fetched", "running"}}
InHandOf(w) == {j \in InHand : jobs[j].worker = w}
\* startWorker calls suspended at `await getCluster()`.
Starting == {s \in StartIds : wStart[s].pc = "awaitCluster"}

\* getCluster() as awaited by startWorker and by queueTask inside processJob:
\* with no instance a cluster is launched and assigned.
EnsureCluster ==
    IF clusterInstance # 0
      THEN UNCHANGED <<clusterInstance, clusters, clusterMemoryInterval>>
      ELSE /\ clusters' = Append(clusters, NewCluster)
           /\ clusterInstance' = Len(clusters) + 1
           /\ clusterMemoryInterval' = TRUE

\* Lines 204-223: a startWorker call up to await getCluster().
StartWorkerCall(s) ==
    /\ wStart[s].pc = "idle"
    /\ Len(bull) + Cardinality(Starting) < MaxWorkersCreated
    /\ IF workerInstance # 0
         THEN wStart' = [wStart EXCEPT ![s].outcome = "existing"]
         ELSE IF isShuttingDown
         THEN wStart' = [wStart EXCEPT ![s].outcome = "refused"]
         ELSE wStart' = [wStart EXCEPT ![s] = [pc |-> "awaitCluster", outcome |-> "none"]]
    /\ UNCHANGED <<maxWorkers, retryAttempts, workerInstance, workerConnection, isShuttingDown, shutdownPromise,
                   workerMemoryInterval, activeJobs, bull, sequences, stopCalls, jobs>>
    /\ UNCHANGED <<retryVars, scrollVars, clusterVars, closeVars, producerVars, loadVars, crashVars, pagedVars>>

\* Lines 223-309: getCluster() fulfils; the connection and the Worker are
\* created and assigned, the memory interval is set.
StartWorkerCreates(s) ==
    /\ wStart[s].pc = "awaitCluster"
    /\ EnsureCluster
    /\ bull' = Append(bull, [paused |-> FALSE, closed |-> FALSE])
    /\ workerInstance' = Len(bull) + 1
    /\ workerConnection' = Len(bull) + 1
    /\ workerMemoryInterval' = TRUE
    /\ wStart' = [wStart EXCEPT ![s] = [pc |-> "idle", outcome |-> "created"]]
    /\ UNCHANGED <<maxWorkers, retryAttempts, isShuttingDown, shutdownPromise, activeJobs, sequences, stopCalls, jobs>>
    /\ UNCHANGED <<maxConcurrency, stealthVerified, activePageCount, calls>>
    /\ UNCHANGED <<retryVars, scrollVars, closeVars, producerVars, loadVars, crashVars, pagedVars>>

\* BullMQ moves a waiting job to active for a worker that is fetching; a
\* worker holds at most config.maxWorkers (its `concurrency` option, line 234)
\* jobs at a time.
JobFetched(j) ==
    /\ jobs[j].state = "waiting"
    /\ \E w \in DOMAIN bull :
        /\ Fetching(w)
        /\ Cardinality(InHandOf(w)) < maxWorkers
        /\ jobs' = [jobs EXCEPT ![j].state = "fetched", ![j].worker = w]
    /\ UNCHANGED <<maxWorkers, retryAttempts, workerInstance, workerConnection, isShuttingDown, shutdownPromise,
                   workerMemoryInterval, activeJobs, wStart, bull, sequences, stopCalls>>
    /\ UNCHANGED <<retryVars, scrollVars, clusterVars, closeVars, producerVars, loadVars, crashVars, pagedVars>>

\* config.retry.backoff, the `backoff` option of every job (producer.js:25).
BackoffOptions == [type |-> "exponential", delay |-> 5000]

\* getRetryDelay (lines 73-93).
GetRetryDelay(errorType, made) ==
    LET baseDelay == BackoffOptions.delay IN
    IF errorType = RATE_LIMITED THEN Min(baseDelay * Pow(3, made), 300000)
    ELSE IF errorType = BANNED THEN Min(baseDelay * Pow(4, made), 600000)
    ELSE IF errorType \in {TIMEOUT, NETWORK} THEN Min(baseDelay * Pow(2, made), 60000)
    ELSE IF errorType = CAPTCHA THEN Min(baseDelay * Pow(3, made), 180000)
    ELSE baseDelay * Pow(2, made)

\* settings.backoffStrategy (lines 243-247): the class is read from the job's
\* persisted lastError, UNKNOWN without one.
BackoffStrategy(job, made) ==
    GetRetryDelay(IF job.lastError.type # "none" THEN job.lastError.type ELSE UNKNOWN, made)

\* The delay BullMQ gives a job it retries: for the built-in backoff types
\* ('fixed', 'exponential') its own formula on backoff.delay; the worker's
\* backoffStrategy only for any other type.
BackoffDelay(job, made) ==
    IF BackoffOptions.type = "fixed" THEN BackoffOptions.delay
    ELSE IF BackoffOptions.type = "exponential" THEN BackoffOptions.delay * Pow(2, made - 1)
    ELSE BackoffStrategy(job, made)

\* What BullMQ does with a job whose processor rejected: an
\* UnrecoverableError fails it at once; any other error retries it while
\* attemptsMade + 1 < opts.attempts, else fails it. attemptsMade is counted.
AfterFailure(job, unrecoverable) ==
    LET made == job.attemptsMade + 1
        counted == [job EXCEPT !.attemptsMade = made, !.worker = 0,
                               !.firstTwoBanned = IF made = 2 THEN job.bans = 2 ELSE @]
    IN  IF unrecoverable
          THEN [counted EXCEPT !.state = "failed", !.failedBy = "unrecoverable"]
          ELSE IF made < retryAttempts
          THEN [counted EXCEPT !.state = "waiting", !.delay = BackoffDelay(counted, made)]
          ELSE [counted EXCEPT !.state = "failed", !.failedBy = "exhausted"]

\* Mutant of line 101: processJob does not look at isShuttingDown.
JobRefusedNever == FALSE
\* Line 101: if (isShuttingDown)
JobRefused == isShuttingDown

\* Lines 99-109: processJob is invoked. While shutting down it throws before
\* the try block; else the job is tracked and queueTask is awaited (its
\* getCluster launches a cluster when there is none; the task's callback
\* counts the page).
ProcessJobStarts(j) ==
    /\ jobs[j].state = "fetched"
    /\ IF JobRefused
         THEN /\ jobs' = [jobs EXCEPT ![j] =
                            AfterFailure([jobs[j] EXCEPT !.refusals = @ + 1], FALSE)]
              /\ UNCHANGED <<activeJobs, clusterInstance, clusters, clusterMemoryInterval,
                             activePageCount>>
         ELSE /\ activeJobs' = activeJobs \cup {j}
              /\ jobs' = [jobs EXCEPT ![j].state = "running",
                                      ![j].target = TargetUrl(jobs[j].data)]
              /\ EnsureCluster
              /\ activePageCount' = activePageCount + 1
    /\ UNCHANGED <<maxWorkers, retryAttempts, workerInstance, workerConnection, isShuttingDown, shutdownPromise,
                   workerMemoryInterval, wStart, bull, sequences, stopCalls>>
    /\ UNCHANGED <<maxConcurrency, stealthVerified, calls>>
    /\ UNCHANGED <<retryVars, scrollVars, closeVars, producerVars, loadVars, crashVars, pagedVars>>

\* Lines 128-150 and 195-198: queueTask fulfils, the results are returned, the
\* job leaves activeJobs; BullMQ completes it.
ProcessJobSucceeds(j) ==
    /\ jobs[j].state = "running"
    /\ activePageCount' = activePageCount - 1
    /\ activeJobs' = activeJobs \ {j}
    /\ jobs' = [jobs EXCEPT ![j].state = "completed", ![j].worker = 0]
    /\ UNCHANGED <<maxWorkers, retryAttempts, workerInstance, workerConnection, isShuttingDown, shutdownPromise,
                   workerMemoryInterval, wStart, bull, sequences, stopCalls>>
    /\ UNCHANGED <<maxConcurrency, clusterInstance, stealthVerified, clusterMemoryInterval,
                   clusters, calls>>
    /\ UNCHANGED <<retryVars, scrollVars, closeVars, producerVars, loadVars, crashVars, pagedVars>>

\* Mutant of line 187: the short-circuit comes one attempt late.
BanShortCircuitLate(job, errorType) == errorType = BANNED /\ job.attemptsMade >= 2
\* Line 187: errorType === ErrorTypes.BANNED && job.attemptsMade >= 1
BanShortCircuit(job, errorType) == errorType = BANNED /\ job.attemptsMade >= 1

\* Lines 152-198: queueTask rejects with an error of message msg; the catch
\* block classifies it, tries to persist lastError (updateData may fail, which
\* is only logged), throws UnrecoverableError or the error; the job leaves
\* activeJobs.
ProcessJobFails(j) ==
    /\ jobs[j].state = "running"
    /\ \E msg \in ErrorMessages, updated \in BOOLEAN :
        LET errorType == ClassifyError(msg)
            counted == IF errorType = BANNED
                         THEN [jobs[j] EXCEPT !.bans = jobs[j].bans + 1]
                         ELSE jobs[j]
            persisted == IF updated
                           THEN [counted EXCEPT !.lastError =
                                    [type |-> errorType, attempt |-> jobs[j].attemptsMade + 1]]
                           ELSE counted
        IN  jobs' = [jobs EXCEPT ![j] =
                        AfterFailure(persisted, BanShortCircuit(jobs[j], errorType))]
    /\ activePageCount' = activePageCount - 1
    /\ activeJobs' = activeJobs \ {j}
    /\ UNCHANGED <<maxWorkers, retryAttempts, workerInstance, workerConnection, isShuttingDown, shutdownPromise,
                   workerMemoryInterval, wStart, bull, sequences, stopCalls>>
    /\ UNCHANGED <<maxConcurrency, clusterInstance, stealthVerified, clusterMemoryInterval,
                   clusters, calls>>
    /\ UNCHANGED <<retryVars, scrollVars, closeVars, producerVars, loadVars, crashVars, pagedVars>>

\* Step 6 of the shutdown sequence: quit the worker's connection if there is
\* one, then close the shared connection.
ToStep6 == IF workerConnection # 0 THEN "quitting" ELSE "closingShared"
\* Step 5: closeCluster() returns at once without an instance.
ToStep5 == IF clusterInstance # 0 THEN "closingCluster" ELSE ToStep6
\* The finally block of the shutdown sequence.
ShutdownFinally ==
    /\ isShuttingDown' = FALSE
    /\ shutdownPromise' = 0
    /\ activeJobs' = {}

\* Mutant of line 319: the guard against a second shutdown is gone.
StopIgnoresShutdownPromise == FALSE
\* Line 319: if (shutdownPromise)
StopSeesShutdownPromise == shutdownPromise # 0

\* Lines 317-343 and 430: a stopWorker call. With a shutdown in progress it
\* returns that promise; without a worker it returns; else it sets
\* isShuttingDown and starts the shutdown sequence, which runs up to
\* `await workerInstance.pause()` before the promise is assigned.
StopWorkerCalled(c) ==
    /\ stopCalls[c].pc = "idle"
    /\ \A d \in 1..(c - 1) : stopCalls[d].pc # "idle"
    /\ IF StopSeesShutdownPromise
         THEN /\ stopCalls' = [stopCalls EXCEPT ![c] =
                                  [pc |-> "waiting", seq |-> shutdownPromise, joined |-> TRUE]]
              /\ UNCHANGED <<isShuttingDown, shutdownPromise, workerMemoryInterval, bull, sequences>>
         ELSE IF workerInstance = 0
         THEN /\ stopCalls' = [stopCalls EXCEPT ![c].pc = "resolved"]
              /\ UNCHANGED <<isShuttingDown, shutdownPromise, workerMemoryInterval, bull, sequences>>
         ELSE /\ isShuttingDown' = TRUE
              /\ workerMemoryInterval' = FALSE
              /\ bull' = [bull EXCEPT ![workerInstance].paused = TRUE]
              /\ sequences' = Append(sequences, [pc |-> "pausing", worker |-> workerInstance, closeFailed |-> 0])
              /\ shutdownPromise' = Len(sequences) + 1
              /\ stopCalls' = [stopCalls EXCEPT ![c] =
                                  [pc |-> "waiting", seq |-> Len(sequences) + 1, joined |-> FALSE]]
    /\ UNCHANGED <<maxWorkers, retryAttempts, workerInstance, workerConnection, activeJobs, wStart, jobs>>
    /\ UNCHANGED <<retryVars, scrollVars, clusterVars, closeVars, producerVars, loadVars, pagedVars>>

StopWorker(c) == StopWorkerCalled(c) /\ UNCHANGED crashVars

\* The promise a stopWorker call returned settles once its sequence has run
\* its finally block.
StopResolves(c) ==
    /\ stopCalls[c].pc = "waiting"
    /\ sequences[stopCalls[c].seq].pc = "finished"
    /\ stopCalls' = [stopCalls EXCEPT ![c].pc = "resolved"]
    /\ UNCHANGED <<maxWorkers, retryAttempts, workerInstance, workerConnection, isShuttingDown, shutdownPromise,
                   workerMemoryInterval, activeJobs, wStart, bull, sequences, jobs>>
    /\ UNCHANGED <<retryVars, scrollVars, clusterVars, closeVars, producerVars, loadVars, crashVars, pagedVars>>

\* Line 343: pause() fulfils; BullMQ's pause waits for the jobs the worker has
\* in hand. The race of step 3 is entered.
SeqPauseResolves(n) ==
    /\ sequences[n].pc = "pausing"
    /\ InHandOf(sequences[n].worker) = {}
    /\ sequences' = [sequences EXCEPT ![n].pc = "waiting"]
    /\ UNCHANGED <<maxWorkers, retryAttempts, workerInstance, workerConnection, isShuttingDown, shutdownPromise,
                   workerMemoryInterval, activeJobs, wStart, bull, stopCalls, jobs>>
    /\ UNCHANGED <<retryVars, scrollVars, clusterVars, closeVars, producerVars, loadVars, crashVars, pagedVars>>

\* Lines 343, 412-427: pause() rejects; the catch block kills the browsers and
\* drops the worker and its connection, the finally block runs.
SeqPauseRejects(n) ==
    /\ sequences[n].pc = "pausing"
    /\ clusters' \in ForceKilledClusters
    /\ ClusterGone
    /\ workerInstance' = 0
    /\ workerConnection' = 0
    /\ ShutdownFinally
    /\ sequences' = [sequences EXCEPT ![n].pc = "finished"]
    /\ UNCHANGED <<maxWorkers, retryAttempts, workerMemoryInterval, wStart, bull, stopCalls, jobs>>
    /\ UNCHANGED <<maxConcurrency, clusterMemoryInterval, calls>>
    /\ UNCHANGED <<retryVars, scrollVars, closeVars, producerVars, loadVars, crashVars, pagedVars>>

\* Lines 348-371: the race of step 3 settles, because activeJobs is empty or
\* because the timeout elapsed; step 4 calls close() on the worker, or, without
\* a worker, step 5 calls closeCluster().
SeqWaitDone(n) ==
    /\ sequences[n].pc = "waiting"
    /\ \E timedOut \in BOOLEAN : activeJobs = {} \/ timedOut
    /\ IF workerInstance # 0
         THEN /\ bull' = [bull EXCEPT ![workerInstance].closed = TRUE]
              /\ sequences' = [sequences EXCEPT ![n].pc = "closingWorker"]
              /\ UNCHANGED clusterMemoryInterval
         ELSE /\ sequences' = [sequences EXCEPT ![n].pc = ToStep5]
              /\ CloseClusterCalled
              /\ UNCHANGED bull
    /\ UNCHANGED <<maxWorkers, retryAttempts, workerInstance, workerConnection, isShuttingDown, shutdownPromise,
                   workerMemoryInterval, activeJobs, wStart, stopCalls, jobs>>
    /\ UNCHANGED <<maxConcurrency, clusterInstance, stealthVerified, activePageCount, clusters, calls>>
    /\ UNCHANGED <<retryVars, scrollVars, closeVars, producerVars, loadVars, crashVars, pagedVars>>

\* Lines 370-383: close() fulfils, rejects, or loses against the 10 s timer
\* (the rejection is caught and logged); workerInstance is dropped and step 5
\* calls closeCluster().
SeqWorkerCloseSettles(n) ==
    /\ sequences[n].pc = "closingWorker"
    /\ workerInstance' = 0
    /\ sequences' = [sequences EXCEPT ![n].pc = ToStep5]
    /\ CloseClusterCalled
    /\ UNCHANGED <<maxWorkers, retryAttempts, workerConnection, isShuttingDown, shutdownPromise,
                   workerMemoryInterval, activeJobs, wStart, bull, stopCalls, jobs>>
    /\ UNCHANGED <<maxConcurrency, clusterInstance, stealthVerified, activePageCount, clusters, calls>>
    /\ UNCHANGED <<retryVars, scrollVars, closeVars, producerVars, loadVars, crashVars, pagedVars>>

\* Lines 383 and 390-396: closeCluster() fulfils after waiting for the pages
\* (or its 30 s timers): the cluster is closed, the cluster state reset; step
\* 6 follows.
SeqClusterClosed(n) ==
    /\ sequences[n].pc = "closingCluster"
    /\ \E timedOut \in BOOLEAN : activePageCount = 0 \/ timedOut
    /\ clusterInstance # 0
    /\ clusters' = ClosedClusters
    /\ ClusterGone
    /\ sequences' = [sequences EXCEPT ![n].pc = ToStep6]
    /\ UNCHANGED <<maxWorkers, retryAttempts, workerInstance, workerConnection, isShuttingDown, shutdownPromise,
                   workerMemoryInterval, activeJobs, wStart, bull, stopCalls, jobs>>
    /\ UNCHANGED <<maxConcurrency, clusterMemoryInterval, calls>>
    /\ UNCHANGED <<retryVars, scrollVars, closeVars, producerVars, loadVars, crashVars, pagedVars>>

\* Lines 383-396: closeCluster() rejects: its catch block has reset the
\* cluster state (lines 474-476) before rethrowing, so the forceKillBrowsers()
\* of line 387 runs without an instance; step 6 follows. (closeFailed: the
\* cluster that failed to close.)
SeqClusterCloseThrows(n) ==
    /\ sequences[n].pc = "closingCluster"
    /\ ClusterGone
    /\ sequences' = [sequences EXCEPT ![n].pc = ToStep6, ![n].closeFailed = clusterInstance]
    /\ UNCHANGED <<maxWorkers, retryAttempts, workerInstance, workerConnection, isShuttingDown, shutdownPromise,
                   workerMemoryInterval, activeJobs, wStart, bull, stopCalls, jobs>>
    /\ UNCHANGED <<maxConcurrency, clusterMemoryInterval, clusters, calls>>
    /\ UNCHANGED <<retryVars, scrollVars, closeVars, producerVars, loadVars, crashVars, pagedVars>>

\* Lines 391-406: quit() fulfils, loses against the 5 s timer, or rejects
\* (then disconnect()); workerConnection is dropped, closeConnection() called.
SeqQuitSettles(n) ==
    /\ sequences[n].pc = "quitting"
    /\ workerConnection' = 0
    /\ sequences' = [sequences EXCEPT ![n].pc = "closingShared"]
    /\ UNCHANGED <<maxWorkers, retryAttempts, workerInstance, isShuttingDown, shutdownPromise,
                   workerMemoryInterval, activeJobs, wStart, bull, stopCalls, jobs>>
    /\ UNCHANGED <<retryVars, scrollVars, clusterVars, closeVars, producerVars, loadVars, crashVars, pagedVars>>

\* Lines 405-427: closeConnection() settles (a rejection is ignored) and the
\* finally block runs; the sequence's promise fulfils.
SeqSharedClosed(n) ==
    /\ sequences[n].pc = "closingShared"
    /\ ShutdownFinally
    /\ sequences' = [sequences EXCEPT ![n].pc = "finished"]
    /\ UNCHANGED <<maxWorkers, retryAttempts, workerInstance, workerConnection, workerMemoryInterval, wStart,
                   bull, stopCalls, jobs>>
    /\ UNCHANGED <<retryVars, scrollVars, clusterVars, closeVars, producerVars, loadVars, crashVars, pagedVars>>

\* One caller of startWorker and the jobs.
JobNext ==
    \/ StartWorkerCall(1)
    \/ StartWorkerCreates(1)
    \/ \E j \in JobIds :
        \/ JobFetched(j)
        \/ ProcessJobStarts(j)
        \/ ProcessJobSucceeds(j)
        \/ ProcessJobFails(j)

\* Every caller of startWorker and the jobs.
StartNext ==
    \/ \E s \in StartIds :
        \/ StartWorkerCall(s)
        \/ StartWorkerCreates(s)
    \/ \E j \in JobIds :
        \/ JobFetched(j)
        \/ ProcessJobStarts(j)
        \/ ProcessJobSucceeds(j)
        \/ ProcessJobFails(j)

(***************************************************************************)
(* queue/producer.js: enqueueScrapeJob, enqueueBulkJobs                    *)
(***************************************************************************)

FreeJobIds == {j \in JobIds : jobs[j].state = "absent"}

\* What a call did to the queue, read off the queue before and after.
Enqueued(fn, valid, outcome) ==
    lastEnqueue' = [fn |-> fn, valid |-> valid, outcome |-> outcome,
                    added |-> {j \in JobIds : jobs[j].state = "absent" /\ jobs'[j].state # "absent"},
                    changed |-> jobs' # jobs]

\* Mutant of line 54: no validation.
InvalidSpecNever(data) == FALSE
\* Line 54: !keyword && !url
InvalidSpec(data) == ~Truthy(data.keyword) /\ ~Truthy(data.url)

\* Lines 51-86: enqueueScrapeJob(data). An invalid spec throws before the
\* queue is touched; else queue.add persists {keyword, url, ...} under the
\* next job id.
EnqueueScrapeJob ==
    /\ \E data \in JobSpecs :
        IF InvalidSpec(data)
          THEN /\ jobs' = jobs
               /\ Enqueued("enqueueScrapeJob", FALSE, "error")
          ELSE /\ FreeJobIds # {}
               /\ LET id == CHOOSE j \in FreeJobIds : \A k \in FreeJobIds : j <= k
                  IN  jobs' = [jobs EXCEPT ![id] = PersistedJob(data)]
               /\ Enqueued("enqueueScrapeJob", ~(~Truthy(data.keyword) /\ ~Truthy(data.url)), "value")
    /\ UNCHANGED <<maxWorkers, retryAttempts, workerInstance, workerConnection, isShuttingDown, shutdownPromise,
                   workerMemoryInterval, activeJobs, wStart, bull, sequences, stopCalls>>
    /\ UNCHANGED <<retryVars, scrollVars, clusterVars, closeVars, loadVars, crashVars, pagedVars>>

\* Lines 93-110: enqueueBulkJobs(jobsData). Every element is mapped to
\* {...data, maxPages, createdAt} and queue.addBulk persists them all.
EnqueueBulkJobs ==
    /\ FreeJobIds # {}
    /\ \E ids \in SUBSET FreeJobIds :
        /\ ids # {}
        /\ \A j \in ids, k \in FreeJobIds : k < j => k \in ids
        /\ \E specs \in [ids -> JobSpecs] :
            /\ jobs' = [j \in JobIds |-> IF j \in ids THEN PersistedJob(specs[j]) ELSE jobs[j]]
            /\ Enqueued("enqueueBulkJobs",
                        \A j \in ids : Truthy(specs[j].keyword) \/ Truthy(specs[j].url), "value")
    /\ UNCHANGED <<maxWorkers, retryAttempts, workerInstance, workerConnection, isShuttingDown, shutdownPromise,
                   workerMemoryInterval, activeJobs, wStart, bull, sequences, stopCalls>>
    /\ UNCHANGED <<retryVars, scrollVars, clusterVars, closeVars, loadVars, crashVars, pagedVars>>

ProducerNext ==
    \/ EnqueueScrapeJob
    \/ EnqueueBulkJobs

\* The producer together with a worker that processes the jobs.
ScrapeNext ==
    \/ ProducerNext
    \/ JobNext

WorkerNext ==
    \/ JobNext
    \/ \E c \in StopIds :
        \/ StopWorker(c)
        \/ StopResolves(c)
    \/ \E n \in DOMAIN sequences :
        \/ SeqPauseResolves(n)
        \/ SeqPauseRejects(n)
        \/ SeqWaitDone(n)
        \/ SeqWorkerCloseSettles(n)
        \/ SeqClusterClosed(n)
        \/ SeqClusterCloseThrows(n)
        \/ SeqQuitSettles(n)
        \/ SeqSharedClosed(n)

(***************************************************************************)
(* queue/worker.js: the uncaughtException and unhandledRejection handlers  *)
(***************************************************************************)

\* What the process still holds: BullMQ workers on which close() was not
\* called, clusters whose browser processes exist, the worker's connection.
OpenResources ==
    (IF \E w \in DOMAIN bull : ~bull[w].closed THEN {"worker"} ELSE {})
    \cup (IF \E k \in DOMAIN clusters : clusters[k].alive THEN {"cluster"} ELSE {})
    \cup (IF workerConnection # 0 THEN {"connection"} ELSE {})

\* Lines 497-519: an uncaught exception or an unhandled rejection reaches its
\* handler, which sets shutdownInProgress and awaits stopWorker(10000).
FaultHandled(c) ==
    /\ crash.pc = "none"
    /\ StopWorkerCalled(c)
    /\ crash' = [pc |-> "stopping", call |-> c, open |-> {}]

\* Lines 501-505 and 513-517: the handler resumes when the promise stopWorker
\* returned has settled (a rejection is swallowed by `catch {}`).
HandlerResumes == stopCalls[crash.call].pc = "resolved"

\* Lines 505 and 517: process.exit(1).
ProcessExits ==
    /\ crash.pc = "stopping"
    /\ HandlerResumes
    /\ crash' = [crash EXCEPT !.pc = "exited", !.open = OpenResources]
    /\ UNCHANGED <<retryVars, scrollVars, clusterVars, closeVars, workerVars, producerVars, loadVars, pagedVars>>

\* The worker with the fault handlers; nothing runs once the process exited.
CrashNext ==
    /\ crash.pc # "exited"
    /\ \/ WorkerNext
       \/ \E c \in StopIds : FaultHandled(c)
       \/ ProcessExits

(***************************************************************************)
(* scraper/product-scraper.js: the loading loop of scrapeProducts          *)
(***************************************************************************)

\* Line 51: the time limit of the loop, in ms; line 108: the cycle limit.
LoadTimeLimit == 300000
LoadMaxCycles == 25
\* Lines 62-67: the timers of the scroll phase, five waits of 2000 ms and one
\* more to stabilise; line 91: the wait after a click.
ScrollPhaseMs == 5 * 2000 + 2000
ClickWaitMs == 5000

\* document.body.scrollHeight as the page may report it, in px.
PageHeights == {1000, 1099, 1100}
\* Time the page calls of one cycle may take on top of the timers, in ms.
PageDelays == {0, LoadTimeLimit}
\* The clock of the model stops here.
ElapsedCap == 2 * LoadTimeLimit + ScrollPhaseMs

Abs(x) == IF x < 0 THEN 0 - x ELSE x

NoCycle == [buttonFound |-> FALSE, clicked |-> FALSE, initialHeight |-> 0, finalHeight |-> 0,
            reasons |-> {}, cycles |-> 0, startedAt |-> 0]

LoadIdle ==
    /\ lPc = "idle"
    /\ keepGoing = TRUE
    /\ totalScrolls = 0
    /\ loopElapsed = 0
    /\ lCycle = NoCycle

LoadInit == LoadIdle
LoadFrozen == LoadIdle

\* Lines 27-47: scrapeProducts navigates to the target URL; a failed
\* navigation is rethrown, else the loop variables are initialised.
LoadNavigate ==
    /\ lPc = "idle"
    /\ \E ok \in BOOLEAN : lPc' = IF ok THEN "loop" ELSE "threw"
    /\ UNCHANGED <<keepGoing, totalScrolls, loopElapsed, lCycle>>
    /\ UNCHANGED <<retryVars, scrollVars, clusterVars, closeVars, workerVars, producerVars, crashVars, pagedVars>>

\* Mutant of line 100: a change of exactly 100 px counts as stuck.
HeightStuckInclusive(initialHeight, finalHeight) == Abs(finalHeight - initialHeight) <= 100
\* Line 100: Math.abs(finalHeight - initialHeight) < 100
HeightStuck(initialHeight, finalHeight) == Abs(finalHeight - initialHeight) < 100

\* Mutant of line 51: the time limit is not tested.
TimeLimitReachedNever == FALSE
\* Line 51: Date.now() - startTimeLoop > 300000
TimeLimitReached == loopElapsed > LoadTimeLimit

\* Lines 49-111: one cycle of the loop. The scroll phase, the search for a
\* visible load-more button; with a button the click (the XPath query may find
\* no button, the click may throw, which is logged), without one the height
\* test; then the cycle count and its limit.
LoadCycle ==
    /\ lPc = "loop"
    /\ keepGoing
    /\ ~TimeLimitReached
    /\ \E buttonFound \in BOOLEAN, clicked \in BOOLEAN,
          initialHeight \in PageHeights, finalHeight \in PageHeights, delay \in PageDelays :
        LET endOfResults == ~buttonFound /\ HeightStuck(initialHeight, finalHeight)
            maxCycles == totalScrolls + 1 > LoadMaxCycles
            took == ScrollPhaseMs + (IF buttonFound /\ clicked THEN ClickWaitMs ELSE 0) + delay
        IN  /\ ~buttonFound => ~clicked
            /\ buttonFound => finalHeight = initialHeight
            /\ totalScrolls' = totalScrolls + 1
            /\ keepGoing' = ~(endOfResults \/ maxCycles)
            /\ loopElapsed' = Min(loopElapsed + took, ElapsedCap)
            /\ lCycle' = [buttonFound |-> buttonFound, clicked |-> clicked,
                          initialHeight |-> initialHeight,
                          finalHeight |-> IF buttonFound THEN 0 ELSE finalHeight,
                          reasons |-> (IF endOfResults THEN {"end_of_results"} ELSE {})
                                      \cup (IF maxCycles THEN {"max_cycles"} ELSE {}),
                          cycles |-> lCycle.cycles + 1,
                          startedAt |-> loopElapsed]
    /\ UNCHANGED lPc
    /\ UNCHANGED <<retryVars, scrollVars, clusterVars, closeVars, workerVars, producerVars, crashVars, pagedVars>>

\* Lines 59-99: a page call of the cycle (page.evaluate, outside any try
\* block) rejects; the error leaves the loop and scrapeProducts.
LoadCycleThrows ==
    /\ lPc = "loop"
    /\ keepGoing
    /\ ~TimeLimitReached
    /\ lPc' = "threw"
    /\ lCycle' = [lCycle EXCEPT !.cycles = @ + 1, !.startedAt = loopElapsed]
    /\ UNCHANGED <<keepGoing, totalScrolls, loopElapsed>>
    /\ UNCHANGED <<retryVars, scrollVars, clusterVars, closeVars, workerVars, producerVars, crashVars, pagedVars>>

\* Lines 49-54 and 114: the loop is left, by its test or by the time limit.
LoadLoopEnds ==
    /\ lPc = "loop"
    /\ ~keepGoing \/ TimeLimitReached
    /\ lPc' = "extract"
    /\ lCycle' = IF keepGoing THEN [lCycle EXCEPT !.reasons = {"time_limit"}] ELSE lCycle
    /\ UNCHANGED <<keepGoing, totalScrolls, loopElapsed>>
    /\ UNCHANGED <<retryVars, scrollVars, clusterVars, closeVars, workerVars, producerVars, crashVars, pagedVars>>

\* Lines 114-201: the products are extracted and the result is returned.
LoadExtract ==
    /\ lPc = "extract"
    /\ lPc' = "done"
    /\ UNCHANGED <<keepGoing, totalScrolls, loopElapsed, lCycle>>
    /\ UNCHANGED <<retryVars, scrollVars, clusterVars, closeVars, workerVars, producerVars, crashVars, pagedVars>>

LoadNext ==
    \/ LoadNavigate
    \/ LoadCycle
    \/ LoadCycleThrows
    \/ LoadLoopEnds
    \/ LoadExtract

(***************************************************************************)
(* retryWithBackoff                                                        *)
(***************************************************************************)

\* Largest maxAttempts the callers of the model pass.
MaxAttemptsBound == 7

\* The option objects tried: the defaults, RetryStrategies.fast, and a
\* factor-3 policy; each with and without jitter, onRetry and isRetryable.
RetryPolicies ==
    { [initialDelay |-> 1000, maxDelay |-> 30000, factor |-> 2],
      [initialDelay |-> 500,  maxDelay |-> 5000,  factor |-> 2],
      [initialDelay |-> 1001, maxDelay |-> 20000, factor |-> 3] }

RetryOptions ==
    { [maxAttempts |-> m, initialDelay |-> p.initialDelay, maxDelay |-> p.maxDelay,
       factor |-> p.factor, jitter |-> j, onRetry |-> o, isRetryable |-> q] :
        m \in 0..MaxAttemptsBound, p \in RetryPolicies,
        j \in BOOLEAN, o \in BOOLEAN, q \in BOOLEAN }

\* Mutant of the base delay: the maxDelay cap is lost.
BaseDelayUncapped(o, k) == o.initialDelay * Pow(o.factor, k - 1)
\* Math.min(initialDelay * Math.pow(factor, attempt - 1), maxDelay)
BaseDelay(o, k) == Min(o.initialDelay * Pow(o.factor, k - 1), o.maxDelay)

\* randomInt(min, max) = floor(random * (max - min + 1)) + min with random in
\* [0, 1): for min = 0 and max = 0.3 * d the largest value is ceil(0.3 * d).
JitterMax(d) == (3 * d + 9) \div 10
JitterChoices(d) == {0, JitterMax(d) \div 2, JitterMax(d)}

\* delay = delay + randomInt(0, delay * 0.3) when jitter is on
Jittered(o, d) == IF o.jitter THEN {d + j : j \in JitterChoices(d)} ELSE {d}

\* An error thrown by fn(attempt): which invocation threw it, and what the
\* caller's isRetryable predicate answers for it.
FnErrors(k) == { [src |-> "fn", n |-> k, retryable |-> b] : b \in BOOLEAN }
OnRetryError(k) == [src |-> "onRetry", n |-> k, retryable |-> FALSE]
FnValue(k) == k

RetryInit ==
    /\ rOpts \in RetryOptions
    /\ rPc = "start"
    /\ attempt = 1
    /\ lastError = NoError
    /\ rBase = 0
    /\ rDelay = 0
    /\ rCalls = 0
    /\ rOnRetry = [calls |-> 0, done |-> 0, args |-> <<>>, sleepsBefore |-> 0]
    /\ rSleeps = 0
    /\ rResult = Pending

RetryFrozen ==
    /\ rOpts = [maxAttempts |-> 0, initialDelay |-> 0, maxDelay |-> 0, factor |-> 0,
                jitter |-> FALSE, onRetry |-> FALSE, isRetryable |-> FALSE]
    /\ rPc = "start"
    /\ attempt = 1
    /\ lastError = NoError
    /\ rBase = 0
    /\ rDelay = 0
    /\ rCalls = 0
    /\ rOnRetry = [calls |-> 0, done |-> 0, args |-> <<>>, sleepsBefore |-> 0]
    /\ rSleeps = 0
    /\ rResult = Pending

\* for (let attempt = 1; attempt <= maxAttempts; ...) -- the first test; when it
\* fails the loop is skipped and line 122 throws lastError (undefined).
RetryEnter ==
    /\ rPc = "start"
    /\ IF attempt <= rOpts.maxAttempts
         THEN /\ rPc' = "call"
              /\ rResult' = rResult
         ELSE /\ rPc' = "rejected"
              /\ rResult' = Rejected(lastError)
    /\ UNCHANGED <<rOpts, attempt, lastError, rBase, rDelay, rCalls, rOnRetry, rSleeps>>
    /\ UNCHANGED <<scrollVars, clusterVars, workerVars, closeVars, producerVars, loadVars, crashVars, pagedVars>>

\* return await fn(attempt) -- fn fulfils
RetryCallReturns ==
    /\ rPc = "call"
    /\ rCalls' = rCalls + 1
    /\ rPc' = "resolved"
    /\ rResult' = Fulfilled(FnValue(attempt))
    /\ UNCHANGED <<rOpts, attempt, lastError, rBase, rDelay, rOnRetry, rSleeps>>
    /\ UNCHANGED <<scrollVars, clusterVars, workerVars, closeVars, producerVars, loadVars, crashVars, pagedVars>>

\* Mutant of the catch block: the last error is swallowed.
RetryExhaustedSwallow(e) ==
    /\ rPc' = "resolved"
    /\ rResult' = Fulfilled(0)
    /\ UNCHANGED <<rBase, rDelay, rOnRetry>>

\* The catch block entered with the last attempt: throw error.
RetryExhausted(e) ==
    /\ rPc' = "rejected"
    /\ rResult' = Rejected(e)
    /\ UNCHANGED <<rBase, rDelay, rOnRetry>>

\* Mutant of the catch block: onRetry is skipped.
RetryScheduleNoOnRetry(e) ==
    /\ rBase' = BaseDelay(rOpts, attempt)
    /\ rDelay' \in Jittered(rOpts, BaseDelay(rOpts, attempt))
    /\ rPc' = "sleep"
    /\ rOnRetry' = rOnRetry
    /\ rResult' = rResult

\* The catch block with attempts left: compute the delay, then onRetry (when
\* given) is called; its call is the next suspension point, else sleep is.
RetrySchedule(e) ==
    /\ rBase' = BaseDelay(rOpts, attempt)
    /\ rDelay' \in Jittered(rOpts, BaseDelay(rOpts, attempt))
    /\ IF rOpts.onRetry
         THEN /\ rPc' = "onRetry"
              /\ rOnRetry' = [calls |-> rOnRetry.calls + 1, done |-> rOnRetry.done,
                              args |-> <<e, attempt, rDelay'>>, sleepsBefore |-> rSleeps]
         ELSE /\ rPc' = "sleep"
              /\ rOnRetry' = rOnRetry
    /\ rResult' = rResult

\* Whether the catch block gives up on this error. The code tests only
\* attempt === maxAttempts; no isRetryable option is read (lines 76-83).
RetryGivesUp(e) == attempt = rOpts.maxAttempts

\* return await fn(attempt) -- fn rejects with e; the catch block runs up to its
\* first await.
RetryCallThrows ==
    /\ rPc = "call"
    /\ \E e \in FnErrors(attempt) :
        /\ rCalls' = rCalls + 1
        /\ lastError' = e
        /\ IF RetryGivesUp(e) THEN RetryExhausted(e) ELSE RetrySchedule(e)
    /\ UNCHANGED <<rOpts, attempt, rSleeps>>
    /\ UNCHANGED <<scrollVars, clusterVars, workerVars, closeVars, producerVars, loadVars, crashVars, pagedVars>>

\* await onRetry(error, attempt, delay) fulfils; sleep(delay) starts.
RetryOnRetryReturns ==
    /\ rPc = "onRetry"
    /\ rOnRetry' = [rOnRetry EXCEPT !.done = rOnRetry.done + 1]
    /\ rPc' = "sleep"
    /\ UNCHANGED <<rOpts, attempt, lastError, rBase, rDelay, rCalls, rSleeps, rResult>>
    /\ UNCHANGED <<scrollVars, clusterVars, workerVars, closeVars, producerVars, loadVars, crashVars, pagedVars>>

\* await onRetry(...) rejects: the rejection leaves the catch block.
RetryOnRetryThrows ==
    /\ rPc = "onRetry"
    /\ rPc' = "rejected"
    /\ rResult' = Rejected(OnRetryError(attempt))
    /\ UNCHANGED <<rOpts, attempt, lastError, rBase, rDelay, rCalls, rOnRetry, rSleeps>>
    /\ UNCHANGED <<scrollVars, clusterVars, workerVars, closeVars, producerVars, loadVars, crashVars, pagedVars>>

\* await sleep(delay) elapses; attempt++ and the loop test (always true here).
RetrySleepElapses ==
    /\ rPc = "sleep"
    /\ rSleeps' = rSleeps + 1
    /\ attempt' = attempt + 1
    /\ rPc' = "call"
    /\ UNCHANGED <<rOpts, lastError, rBase, rDelay, rCalls, rOnRetry, rResult>>
    /\ UNCHANGED <<scrollVars, clusterVars, workerVars, closeVars, producerVars, loadVars, crashVars, pagedVars>>

RetryNext ==
    \/ RetryEnter
    \/ RetryCallReturns
    \/ RetryCallThrows
    \/ RetryOnRetryReturns
    \/ RetryOnRetryThrows
    \/ RetrySleepElapses

(***************************************************************************)
(* The paginated scrapeProducts                                            *)
(***************************************************************************)

\* Bounds: the largest maxPages tried (config.scraper.maxPagesPerJob is 5 by
\* default), and the value at which the count of tries at one page stops
\* being counted (the tries themselves go on).
MaxPagesBound == 4
MaxPageTries == 3

\* isRetryableError: the substrings it looks for in the message.
RetryableMessages ==
    {"net::ERR_CONNECTION_RESET", "net::ERR_CONNECTION_REFUSED", "net::ERR_TIMED_OUT",
     "Navigation timeout", "Timeout exceeded", "socket hang up", "ECONNRESET",
     "ETIMEDOUT", "Protocol error", "Target closed"}

\* The errors a page may fail with, each modelled by the set of substrings
\* of interest that occur in its message.
PageErrors ==
    { {"Navigation timeout"},       \* "Navigation timeout of 30000 ms exceeded"
      {"net::ERR_TIMED_OUT"},       \* "net::ERR_TIMED_OUT at https://..."
      {"net::ERR_NAME_NOT_RESOLVED"},
      {} }                          \* "Cannot read properties of null"

\* isRetryableError(error)
IsRetryableError(msg) == msg \cap RetryableMessages # {}

NoRun == [processed |-> {}, tries |-> 0, odd |-> FALSE, last |-> "none", retried |-> FALSE]
NoPagedResult == [returned |-> FALSE, pagesScraped |-> 0]

PagedIdle ==
    /\ pgPc = "idle"
    /\ currentPage = 1
    /\ pgRun = NoRun
    /\ pgResult = NoPagedResult

PagedInit == maxPages \in 1..MaxPagesBound /\ PagedIdle
PagedFrozen == maxPages = 1 /\ PagedIdle

\* Lines 21-29: scrapeProducts is called; currentPage = 1.
PagedStart ==
    /\ pgPc = "idle"
    /\ pgPc' = "loop"
    /\ UNCHANGED <<maxPages, currentPage, pgRun, pgResult>>
    /\ UNCHANGED <<retryVars, scrollVars, clusterVars, closeVars, workerVars, producerVars, loadVars, crashVars>>

\* The tries at the current page, counted up to MaxPageTries; `odd` is the
\* parity of the number of iterations run.
Tried(run, page) ==
    [run EXCEPT !.processed = @ \cup {page},
                !.tries = Min(@ + 1, MaxPageTries),
                !.odd = ~@]

\* Line 31: while (currentPage <= maxPages)
PageLoopTest == currentPage <= maxPages

\* Lines 31-119: an iteration that scrapes its page. Without a next page, or
\* at the last page allowed, the loop is left by `break`; else currentPage++.
PageScraped ==
    /\ pgPc = "loop"
    /\ PageLoopTest
    /\ \E hasNextPage \in BOOLEAN :
        IF ~hasNextPage \/ currentPage >= maxPages
          THEN /\ pgPc' = "finish"
               /\ pgRun' = [Tried(pgRun, currentPage) EXCEPT !.last = "break"]
               /\ UNCHANGED currentPage
          ELSE /\ currentPage' = currentPage + 1
               /\ pgRun' = [Tried(pgRun, currentPage) EXCEPT !.last = "next", !.tries = 0]
               /\ UNCHANGED pgPc
    /\ UNCHANGED <<maxPages, pgResult>>
    /\ UNCHANGED <<retryVars, scrollVars, clusterVars, closeVars, workerVars, producerVars, loadVars, crashVars>>

\* Lines 31-34 and 120-134: an iteration whose try block throws. A retryable
\* error: longPause(), then `continue` with the same page; any other error:
\* currentPage++.
PageFails ==
    /\ pgPc = "loop"
    /\ PageLoopTest
    /\ \E msg \in PageErrors :
        IF IsRetryableError(msg)
          THEN /\ pgRun' = [Tried(pgRun, currentPage) EXCEPT
                               !.last = "retry", !.retried = pgRun.tries >= 1]
               /\ UNCHANGED currentPage
          ELSE /\ currentPage' = currentPage + 1
               /\ pgRun' = [Tried(pgRun, currentPage) EXCEPT !.last = "skip", !.tries = 0]
    /\ UNCHANGED <<pgPc, maxPages, pgResult>>
    /\ UNCHANGED <<retryVars, scrollVars, clusterVars, closeVars, workerVars, producerVars, loadVars, crashVars>>

\* Line 31: the loop test fails.
PageLoopExit ==
    /\ pgPc = "loop"
    /\ ~PageLoopTest
    /\ pgPc' = "finish"
    /\ UNCHANGED <<maxPages, currentPage, pgRun, pgResult>>
    /\ UNCHANGED <<retryVars, scrollVars, clusterVars, closeVars, workerVars, producerVars, loadVars, crashVars>>

\* Lines 137-158: the result is built and returned; pagesScraped: currentPage.
PagedReturns ==
    /\ pgPc = "finish"
    /\ pgPc' = "done"
    /\ pgResult' = [returned |-> TRUE, pagesScraped |-> currentPage]
    /\ UNCHANGED <<maxPages, currentPage, pgRun>>
    /\ UNCHANGED <<retryVars, scrollVars, clusterVars, closeVars, workerVars, producerVars, loadVars, crashVars>>

PagedNext ==
    \/ PagedStart
    \/ PageScraped
    \/ PageFails
    \/ PageLoopExit
    \/ PagedReturns

(***************************************************************************)
(* Specifications: one per subsystem, the others frozen                    *)
(***************************************************************************)

InitRetry == RetryInit /\ ScrollFrozen /\ ClusterFrozen /\ WorkerFrozen /\ LoadFrozen /\ PagedFrozen
SpecRetry == InitRetry /\ [][RetryNext]_vars

InitScroll == ScrollInit /\ RetryFrozen /\ ClusterFrozen /\ WorkerFrozen /\ LoadFrozen /\ PagedFrozen
SpecScroll == InitScroll /\ [][ScrollNext]_vars

\* Every page call and every sleep autoScroll awaits settles: the waits are
\* timers, waitForNewElements has its own timeout.
SpecScrollLive == InitScroll /\ [][ScrollNext]_vars /\ WF_vars(ScrollNext)

InitLoad == LoadInit /\ RetryFrozen /\ ScrollFrozen /\ ClusterFrozen /\ WorkerFrozen /\ PagedFrozen
SpecLoad == InitLoad /\ [][LoadNext]_vars
\* Every page call and timer of the loop settles.
SpecLoadLive == InitLoad /\ [][LoadNext]_vars /\ WF_vars(LoadNext)

InitCluster == ClusterInit /\ RetryFrozen /\ ScrollFrozen /\ WorkerFrozen /\ LoadFrozen /\ PagedFrozen
SpecCluster == InitCluster /\ [][ClusterNext]_vars

SpecClose == InitCluster /\ [][CloseNext]_vars

SpecTask == InitCluster /\ [][TaskNext]_vars

InitWorker == WorkerInit /\ WorkerClusterInit /\ RetryFrozen /\ ScrollFrozen /\ LoadFrozen /\ PagedFrozen
SpecWorker == InitWorker /\ [][WorkerNext]_vars

SpecCrash == InitWorker /\ [][CrashNext]_vars

\* Whatever the shutdown sequence awaits that is bound to settle does settle:
\* timers fire, close(), closeCluster(), quit() and closeConnection() are each
\* raced against a timer or settle on their own, and pause() fulfils once the
\* worker has no job in hand. Nothing makes a job finish or pause() reject.
ShutdownProgress ==
    \E n \in DOMAIN sequences :
        \/ SeqPauseResolves(n)
        \/ SeqWaitDone(n)
        \/ SeqWorkerCloseSettles(n)
        \/ SeqClusterClosed(n)
        \/ SeqClusterCloseThrows(n)
        \/ SeqQuitSettles(n)
        \/ SeqSharedClosed(n)

SpecWorkerLive ==
    /\ InitWorker
    /\ [][WorkerNext]_vars
    /\ WF_vars(ShutdownProgress)
    /\ WF_vars(\E c \in StopIds : StopResolves(c))

InitProducer == ProducerInit /\ WorkerClusterInit /\ RetryFrozen /\ ScrollFrozen /\ LoadFrozen /\ PagedFrozen
SpecProducer == InitProducer /\ [][ProducerNext]_vars

SpecScrape == InitProducer /\ [][ScrapeNext]_vars

InitJob == JobInit /\ WorkerClusterInit /\ RetryFrozen /\ ScrollFrozen /\ LoadFrozen /\ PagedFrozen
SpecJob == InitJob /\ [][JobNext]_vars

\* The jobs, with every config.retry.attempts, together with stopWorker.
SpecShutdownJobs == InitJob /\ [][WorkerNext]_vars

InitStart == StartInit /\ WorkerClusterInit /\ RetryFrozen /\ ScrollFrozen /\ LoadFrozen /\ PagedFrozen
SpecStart == InitStart /\ [][StartNext]_vars

InitPaged == PagedInit /\ RetryFrozen /\ ScrollFrozen /\ ClusterFrozen /\ WorkerFrozen /\ LoadFrozen
SpecPaged == InitPaged /\ [][PagedNext]_vars
\* Every iteration of the loop settles: the page calls and the pauses end.
SpecPagedLive == InitPaged /\ [][PagedNext]_vars /\ WF_vars(PagedNext)

(***************************************************************************)
(* Claims about retryWithBackoff                                           *)
(***************************************************************************)

DefaultPolicy ==
    rOpts.initialDelay = 1000 /\ rOpts.maxDelay = 30000 /\ rOpts.factor = 2

\* C7: the base delay before attempt k+1 is min(initialDelay * factor^(k-1),
\* maxDelay); with factor 2, initialDelay 1000, maxDelay 30000 the base delays
\* for k = 1..6 are 1000, 2000, 4000, 8000, 16000, 30000; and the delay waited
\* after jitter is never less than the base delay.
C7_BaseDelays ==
    rPc \in {"onRetry", "sleep"} =>
        /\ rBase = Min(rOpts.initialDelay * Pow(rOpts.factor, attempt - 1), rOpts.maxDelay)
        /\ rDelay >= rBase
        /\ (DefaultPolicy /\ attempt <= 6) =>
              rBase = <<1000, 2000, 4000, 8000, 16000, 30000>>[attempt]

C7_Witness ==
    /\ rPc = "sleep" /\ DefaultPolicy /\ rOpts.jitter
    /\ attempt = 6 /\ rBase = 30000 /\ rDelay > rBase

\* C8: fn is invoked at most maxAttempts times; the first success ends the run
\* and its value is returned; when all maxAttempts invocations fail the promise
\* rejects with the error thrown by the last invocation.
C8_AttemptsAndFinalError ==
    /\ rCalls <= rOpts.maxAttempts
    /\ rPc = "resolved" => rResult = Fulfilled(FnValue(rCalls))
    /\ (rPc = "rejected" /\ rCalls >= 1 /\ rCalls = rOpts.maxAttempts) =>
          /\ rResult.kind = "error"
          /\ rResult.error = lastError
          /\ rResult.error.src = "fn"
          /\ rResult.error.n = rOpts.maxAttempts
    /\ rPc \in {"start", "call", "onRetry", "sleep"} => rResult = Pending

C8_Witness ==
    /\ rPc = "rejected" /\ rOpts.maxAttempts = 3 /\ rCalls = 3
    /\ rResult.kind = "error" /\ rResult.error.n = 3

\* C9: when the isRetryable predicate given in the options answers false for an
\* error thrown by fn, that error is propagated at once: no onRetry, no wait,
\* no further invocation.
C9_NonRetryablePropagates ==
    (rOpts.isRetryable /\ lastError.src = "fn" /\ ~lastError.retryable) =>
        /\ rPc = "rejected"
        /\ rResult = Rejected(lastError)
        /\ rCalls = lastError.n

\* C10: with onRetry given, every failed attempt k that is followed by another
\* attempt has onRetry(error, k, delay) invoked and settled before the wait of
\* that delay starts, once per retry, and never after the final failed attempt.
C10_OnRetryBeforeWait ==
    /\ ~rOpts.onRetry => rOnRetry.calls = 0
    /\ rOpts.onRetry =>
        /\ rPc = "onRetry" =>
              /\ rOnRetry.calls = attempt /\ rOnRetry.done = attempt - 1
              /\ rSleeps = attempt - 1
        /\ rPc = "sleep" =>
              /\ rOnRetry.calls = attempt /\ rOnRetry.done = attempt
              /\ rOnRetry.args = <<lastError, attempt, rDelay>>
              /\ rOnRetry.sleepsBefore = rSleeps
        /\ rPc = "call" => rOnRetry.calls = attempt - 1 /\ rSleeps = attempt - 1
        /\ (rPc = "rejected" /\ rResult.error.src = "fn") =>
              rOnRetry.calls = rCalls - 1 /\ rOnRetry.done = rCalls - 1
        /\ rPc = "resolved" => rOnRetry.calls = rCalls - 1

C10_Witness ==
    /\ rOpts.onRetry /\ rPc = "sleep" /\ attempt = 2
    /\ rOnRetry.done = 2 /\ rSleeps = 1

(***************************************************************************)
(* Claims about autoScroll                                                 *)
(***************************************************************************)

NeverIncreasedRun == sPc = "done" /\ sOpts.itemSelector /\ ~sPage.everIncreased

C6_ProgressResetsStall ==
    ( /\ sOpts.itemSelector
      /\ sPc \in {"loop", "final", "done"}
      /\ Len(sPage.history) > 0
      /\ sPage.history[Len(sPage.history)] ) =>
        /\ stallCount = 0
        /\ sPc = "done" => stats.stallsEncountered = 0

\* Increases at cycles 1, 2 and 5 with stalls at cycles 3 and 4.
C6_Witness ==
    /\ sOpts.itemSelector
    /\ sPc = "loop"
    /\ sPage.history = <<TRUE, TRUE, FALSE, FALSE, TRUE>>
    /\ stallCount = 0

(***************************************************************************)
(* Claims about getCluster / queueTask                                     *)
(***************************************************************************)

TaskBodies == {i \in CallIds : calls[i].pc = "task"}
BodyRan(i) == calls[i].pc = "done" /\ calls[i].slot # 0

\* C1: for every interleaving of queueTask calls the number of task bodies
\* executing at the same time never exceeds config.maxConcurrency.
C1_ConcurrencyBounded == Cardinality(TaskBodies) <= maxConcurrency

\* C2: whenever a queueTask call settles, its task having returned or thrown,
\* the cookies and the storage of its page have been cleared before it
\* resolves or rejects, and no task finds state left by an earlier task.
C2_CleanedBeforeSettle ==
    \A i \in CallIds :
        /\ BodyRan(i) => calls[i].cleaned
        /\ ~calls[i].sawStale

(***************************************************************************)
(* Claims about the worker                                                 *)
(***************************************************************************)

Unfinished == {n \in DOMAIN sequences : sequences[n].pc # "finished"}

\* C3: stopWorker calls that overlap on a running worker execute exactly one
\* shutdown sequence: never two sequences are in progress, every call issued
\* while one is in progress awaits that very sequence, and a call resolves only
\* after the sequence it awaits has run to its end.
C3_SingleShutdown ==
    /\ Cardinality(Unfinished) <= 1
    /\ Len(sequences) <= Len(bull)
    /\ \A c \in StopIds :
        /\ stopCalls[c].pc = "waiting" =>
              \/ sequences[stopCalls[c].seq].pc = "finished"
              \/ Unfinished = {stopCalls[c].seq}
        /\ (stopCalls[c].pc = "resolved" /\ stopCalls[c].seq # 0) =>
              sequences[stopCalls[c].seq].pc = "finished"

\* Two calls overlapped on the first worker and both resolved after its one
\* shutdown sequence.
C3_Witness ==
    /\ Len(sequences) = 1
    /\ sequences[1].pc = "finished"
    /\ \A c \in {1, 2} : stopCalls[c].pc = "resolved" /\ stopCalls[c].seq = 1
    /\ stopCalls[2].joined

\* C4: with retry.attempts > 2, a job whose first two attempts both failed
\* with an error classified as banned has been failed by an UnrecoverableError
\* at the second attempt; it is not waiting or running for a third attempt.
C4_BannedTwiceTerminates ==
    \A j \in JobIds :
        (retryAttempts > 2 /\ jobs[j].firstTwoBanned) =>
            /\ jobs[j].state = "failed"
            /\ jobs[j].failedBy = "unrecoverable"
            /\ jobs[j].attemptsMade = 2

C4_Witness ==
    \E j \in JobIds :
        /\ retryAttempts = MaxRetryAttempts
        /\ jobs[j].firstTwoBanned
        /\ jobs[j].attemptsMade = 2
        /\ jobs[j].state = "failed"

(***************************************************************************)
(* Claims about closeCluster and forceKillBrowsers                         *)
(***************************************************************************)

\* C11: once closeCluster has started, a queueTask call issued afterwards
\* (while the cluster is closing or after it has closed) neither launches a
\* cluster nor gets as far as starting its task on the closing cluster.
C11_NoAdmissionAfterClose ==
    \A i \in closer.late :
        /\ calls[i].pc # "launching"
        /\ calls[i].cluster \in {0, closer.cluster}
        /\ calls[i].slot = 0

\* C12: when closeCluster has thrown during stopWorker, the browser processes
\* of the cluster that failed to close have been terminated once the fallback
\* forceKillBrowsers has run.
C12_ForceKillTerminates ==
    \A n \in DOMAIN sequences :
        sequences[n].closeFailed # 0 => ~clusters[sequences[n].closeFailed].alive

(***************************************************************************)
(* Claims about processJob during a shutdown                               *)
(***************************************************************************)

\* C13: from the moment stopWorker is called on a running worker until that
\* shutdown sequence has completed, no job becomes active: no step adds a job
\* to activeJobs or starts a job's queueTask.
C13_NoJobDuringShutdown ==
    [][Unfinished # {} =>
          /\ activeJobs' \subseteq activeJobs
          /\ \A j \in JobIds : jobs'[j].state = "running" => jobs[j].state = "running"]_vars

\* A processJob invocation arrived during the shutdown and was rejected.
C13_Witness ==
    \E j \in JobIds :
        /\ Unfinished # {}
        /\ jobs[j].refusals = 1
        /\ j \notin activeJobs
        /\ jobs[j].state # "running"

\* C14: every stopWorker call on a running worker eventually resolves, even
\* when the jobs in flight never finish.
C14_StopEventuallyResolves ==
    \A c \in StopIds : (stopCalls[c].pc = "waiting") ~> (stopCalls[c].pc = "resolved")

(***************************************************************************)
(* Claims about a job's failures                                           *)
(***************************************************************************)

\* C15: whenever a processJob invocation has failed, the job's data carries
\* the lastError record of that failure (its class and its attempt number)
\* by the time the job is rescheduled or finalized as failed.
C15_FailureRecorded ==
    \A j \in JobIds :
        (jobs[j].attemptsMade >= 1 /\ jobs[j].state \in {"waiting", "failed"}) =>
            /\ jobs[j].lastError.type # "none"
            /\ jobs[j].lastError.attempt = jobs[j].attemptsMade

\* C16: a job rescheduled after a failure of class K gets the delay
\* getRetryDelay(K, attemptsMade), attemptsMade read either before or after
\* the failed attempt is counted.
C16_ClassSpecificDelay ==
    \A j \in JobIds :
        ( /\ jobs[j].state = "waiting"
          /\ jobs[j].attemptsMade >= 1
          /\ jobs[j].lastError.attempt = jobs[j].attemptsMade ) =>
            jobs[j].delay \in { GetRetryDelay(jobs[j].lastError.type, jobs[j].attemptsMade),
                                GetRetryDelay(jobs[j].lastError.type, jobs[j].attemptsMade - 1) }

(***************************************************************************)
(* Claims about the producer and the navigation URL                        *)
(***************************************************************************)

\* C17: enqueueScrapeJob called with a spec that has neither a keyword nor a
\* url fails with an error and leaves the queue's contents unchanged.
C17_InvalidSpecRejected ==
    (lastEnqueue.fn = "enqueueScrapeJob" /\ ~lastEnqueue.valid) =>
        /\ lastEnqueue.outcome = "error"
        /\ lastEnqueue.added = {}
        /\ ~lastEnqueue.changed

\* An invalid spec was rejected while the queue already held a job.
C17_Witness ==
    /\ lastEnqueue.fn = "enqueueScrapeJob"
    /\ ~lastEnqueue.valid
    /\ lastEnqueue.outcome = "error"
    /\ FreeJobIds # JobIds

\* C18: enqueueBulkJobs never persists a job that has neither a keyword nor a
\* url.
C18_BulkValidated ==
    lastEnqueue.fn = "enqueueBulkJobs" =>
        \A j \in lastEnqueue.added : Truthy(jobs[j].data.keyword) \/ Truthy(jobs[j].data.url)

\* C19: every persisted job resolves to one navigation URL: scrapeProducts
\* goes to job.url when there is one and otherwise to the search URL built
\* from the job's keyword.
C19_OneNavigationUrl ==
    \A j \in JobIds :
        jobs[j].target # NoTarget =>
            IF Truthy(jobs[j].data.url)
              THEN jobs[j].target = <<jobs[j].data.url>>
              ELSE /\ Truthy(jobs[j].data.keyword)
                   /\ jobs[j].target = <<"https://www.tokopedia.com/search?st=product&q=",
                                         EncodeURIComponent(jobs[j].data.keyword)>>

\* C20: the size of activeJobs, the jobs active at the same time, never
\* exceeds config.maxWorkers.
C20_ActiveJobsBounded == Cardinality(activeJobs) <= maxWorkers

(***************************************************************************)
(* Claims about autoScroll: termination, item counts, the retry at bottom  *)
(***************************************************************************)

C22_ItemCountMonotonic ==
    [][(sPc \in {"loop", "escalate"}) => (previousItemCount' >= previousItemCount)]_vars

\* C23: a cycle without new content, at the page bottom and with the stall
\* counter at 2 or more makes the escalated attempt; when that attempt observes
\* an increase the stall counter is 0 afterwards, the cycle counts as one with
\* new content and does not leave the loop as stalled.
C23_EscalationResetsStall ==
    [][ /\ ( /\ sPc = "loop"
             /\ sPage'.cycles = sPage.cycles + 1
             /\ sPage'.atBottom /\ stallCount + 1 >= 2
             /\ IF sOpts.itemSelector THEN sPage'.last <= previousItemCount
                                      ELSE previousHeight' <= previousHeight ) =>
                /\ sPc' = "escalate"
                /\ stallCount' = stallCount + 1
        /\ ( /\ sPc = "escalate"
             /\ sOpts.itemSelector
             /\ sPage'.last > previousItemCount ) =>
                /\ stallCount' = 0
                /\ hasNewContent'
                /\ sPage'.history[Len(sPage'.history)]
                /\ sPage'.exit # "stall"
                /\ sPage'.late
      ]_vars

\* The escalated attempt of a cycle that came after two stalls found new items.
C23_Witness ==
    /\ sOpts.itemSelector
    /\ sPage.atBottom /\ sPage.late
    /\ Len(sPage.history) = 3
    /\ sPage.history = <<FALSE, FALSE, TRUE>>
    /\ stallCount = 0
    /\ sPc = "loop"

(***************************************************************************)
(* Claims about the loading loop of scrapeProducts                         *)
(***************************************************************************)

\* C24: a cycle in which a visible load-more button is found never ends the
\* loop as end-of-results; the loop ends as end-of-results only in a cycle
\* without such a button in which the page height changed by less than 100 px.
C24_ButtonKeepsLoading ==
    "end_of_results" \in lCycle.reasons =>
        /\ ~lCycle.buttonFound
        /\ Abs(lCycle.finalHeight - lCycle.initialHeight) < 100
        /\ ~keepGoing

\* The loop ended as end-of-results in its second cycle, on a change of 99 px.
C24_Witness ==
    /\ lPc = "done"
    /\ lCycle.reasons = {"end_of_results"}
    /\ lCycle.cycles = 2
    /\ Abs(lCycle.finalHeight - lCycle.initialHeight) = 99

(***************************************************************************)
(* Claims about queueTask's outcome and the page counter                   *)
(***************************************************************************)

\* C25: queueTask resolves with the task's return value when the task
\* returned and rejects with the task's error when the task threw, whatever
\* the cookie cleanup, the storage cleanup and the screenshot did.
C25_OutcomeIsTheTasks ==
    \A i \in CallIds :
        calls[i].pc = "done" =>
            /\ calls[i].task = "returned" => calls[i].outcome = "value"
            /\ calls[i].task = "threw" => calls[i].outcome = "error" /\ calls[i].threw = "task"

\* C26: the activePages value of getClusterStatus equals the number of
\* queueTask task bodies executing and is never negative, also after
\* closeCluster ran while tasks were in flight.
C26_ActivePagesExact ==
    /\ ActivePages = Cardinality(ExecutingBodies)
    /\ ActivePages >= 0

(***************************************************************************)
(* Claims about the jitter of retryWithBackoff                             *)
(***************************************************************************)

\* C27: with jitter enabled the delay waited lies between the base delay d and
\* 1.3 * d.
C27_JitterWithinThirtyPercent ==
    (rPc \in {"onRetry", "sleep"} /\ rOpts.jitter) =>
        /\ rBase <= rDelay
        /\ 10 * rDelay <= 13 * rBase

(***************************************************************************)
(* Claims about the fault handlers                                         *)
(***************************************************************************)

\* C28: the process exits through the uncaughtException / unhandledRejection
\* handlers only after the stopWorker call of the handler has settled, and
\* never while the worker, the browser cluster or the worker's connection is
\* still open.
C28_ExitAfterShutdown ==
    crash.pc = "exited" =>
        /\ stopCalls[crash.call].pc = "resolved"
        /\ crash.open = {}

(***************************************************************************)
(* Claims about getCluster under concurrent callers                        *)
(***************************************************************************)

\* C29: for every interleaving of getCluster calls, while no cluster has been
\* closed at most one cluster has been launched, and all the callers that
\* got a cluster got the same one.
C29_SingleClusterLaunched ==
    (\A k \in DOMAIN clusters : clusters[k].open) =>
        /\ Len(clusters) <= 1
        /\ \A i, j \in CallIds :
              (calls[i].cluster # 0 /\ calls[j].cluster # 0)
                  => calls[i].cluster = calls[j].cluster

(***************************************************************************)
(* Claims about startWorker during a shutdown                              *)
(***************************************************************************)

\* C30: a startWorker call made while a shutdown is in progress fails with
\* 'Cannot start worker during shutdown'; it never returns the worker that
\* is being shut down.
C30_StartRefusedDuringShutdown ==
    [][\A s \in StartIds :
          (isShuttingDown /\ wStart[s].pc = "idle" /\ wStart'[s] # wStart[s])
              => (wStart'[s].outcome = "refused")]_vars

(***************************************************************************)
(* Claims about overlapping startWorker calls                              *)
(***************************************************************************)

\* C31: overlapping startWorker calls create one queue Worker with one
\* dedicated connection: at most one call creates a Worker, and every Worker
\* that exists is the one workerInstance and workerConnection refer to.
C31_OneWorkerCreated ==
    /\ Len(bull) <= 1
    /\ Cardinality({s \in StartIds : wStart[s].outcome = "created"}) <= 1
    /\ \A w \in DOMAIN bull : workerInstance = w /\ workerConnection = w

(***************************************************************************)
(* Claims about the state a finished shutdown leaves                       *)
(***************************************************************************)

\* C32: when the promise of stopWorker resolves (its shutdown sequence
\* finishes) workerInstance is null, isShuttingDown is false, activeJobs is
\* empty and there is no cluster; and from then on, while no startWorker call
\* is under way, no cluster is created, whatever the jobs that were in flight
\* at the shutdown do.
C32_FullyStopped ==
    [][/\ \A n \in DOMAIN sequences :
             (sequences[n].pc # "finished" /\ sequences'[n].pc = "finished")
                 => /\ workerInstance' = 0
                    /\ ~isShuttingDown'
                    /\ activeJobs' = {}
                    /\ clusterInstance' = 0
       /\ (/\ sequences # <<>>
           /\ \A n \in DOMAIN sequences : sequences[n].pc = "finished"
           /\ workerInstance = 0
           /\ Starting = {}
           /\ clusterInstance = 0)
              => (clusterInstance' = 0)]_vars

(***************************************************************************)
(* Claims about activeJobs                                                 *)
(***************************************************************************)

\* C33: activeJobs holds exactly the jobs whose processJob invocation has
\* started and not yet settled, in every reachable state.
C33_ActiveJobsExact == activeJobs = {j \in JobIds : jobs[j].state = "running"}

(***************************************************************************)
(* Claims about jobs refused during a shutdown                             *)
(***************************************************************************)

\* C34: a job that processJob refuses because the worker is shutting down is
\* retried later: the refusal never leaves the job in the failed state,
\* whatever the number of attempts it has made.
C34_RefusalNeverFails ==
    [][\A j \in JobIds :
          (jobs'[j].refusals > jobs[j].refusals) => (jobs'[j].state # "failed")]_vars

(***************************************************************************)
(* Claims about the short-circuit of banned jobs                           *)
(***************************************************************************)

\* C35: processJob throws the UnrecoverableError only for a job that has
\* failed with an error classified as banned at least twice; a first banned
\* failure after failures of other kinds does not short-circuit the job.
C35_ShortCircuitNeedsTwoBans ==
    \A j \in JobIds : jobs[j].failedBy = "unrecoverable" => jobs[j].bans >= 2

(***************************************************************************)
(* Claims about what stopWorker has released when it resolves              *)
(***************************************************************************)

\* C36: on every path through stopWorker, a failing step included, when the
\* shutdown sequence finishes (and the promise of stopWorker resolves) close()
\* has been called on the queue Worker that the sequence shut down.
C36_WorkerClosedOnEveryPath ==
    \A n \in DOMAIN sequences :
        sequences[n].pc = "finished" => bull[sequences[n].worker].closed

(***************************************************************************)
(* Claims about the paginated scrapeProducts                               *)
(***************************************************************************)

\* C37: the paginated scrapeProducts terminates for every sequence of page
\* outcomes: it processes at most maxPages pages and it returns, also when a
\* page keeps failing with a retryable error.
C37_PagedTerminates ==
    /\ [](Cardinality(pgRun.processed) <= maxPages)
    /\ <>(pgPc = "done")

\* C38: in the result of the paginated scrapeProducts pagesScraped is the
\* number of pages that were processed and is at most maxPages, whatever
\* errors the pages failed with.
C38_PagesScrapedExact ==
    pgResult.returned =>
        /\ pgResult.pagesScraped = Cardinality(pgRun.processed)
        /\ pgResult.pagesScraped <= maxPages

(***************************************************************************)
(* Claims about the statistics of autoScroll                               *)
(***************************************************************************)

\* C39: for a run with an itemSelector the statistics autoScroll returns
\* report as initialItemCount the item count measured before the first cycle,
\* and as itemsLoaded the final item count minus that count.
C39_StatsUseBaseline ==
    (sPc = "done" /\ sOpts.itemSelector) =>
        /\ stats.initialItemCount = sPage.baseline
        /\ stats.itemsLoaded = Num(stats.finalItemCount.n - sPage.baseline)

(***************************************************************************)
(* Claims about the termination of the loading loop                        *)
(***************************************************************************)

====
